---- MODULE Spec2Model ----
(***************************************************************************)
(* A model of the decision + remediation pipeline of                       *)
(* agent-hook-vault-radar: the decision engine (severity filter, block     *)
(* decision), the policy matcher (Protocol.ShouldExecute) and the          *)
(* remediation engine (protocol selection, concurrent strategy fan-out     *)
(* over a buffered result channel, a WaitGroup, a closer goroutine and a   *)
(* collector, under a shared deadline).                                     *)
(*                                                                         *)
(* Go strings are sequences of tokens: a severity, a finding type or a     *)
(* pattern is a sequence of one-character tokens, a fixed message is one   *)
(* token.  The empty string is <<>>.                                       *)
(***************************************************************************)
EXTENDS Integers, Sequences, FiniteSets, TLC

VARIABLES
    cfg,          \* config.Config: Decision and Remediation sections
    input,        \* types.RemediationInput handed to Engine.Execute
    registry,     \* Registry.strategies: the set of registered strategy types
    pc,           \* position of the goroutine that called Engine.Execute
    ret,          \* the types.RemediationResults returned by Engine.Execute
    evaluated,    \* number of protocols ShouldExecute was called on
    protocol,     \* index of the matched protocol in cfg.Remediation.Protocols, 0 = nil
    si,           \* launch loop: index of the next strategy entry
    ctx,          \* the shared context: "none", "live" or "done"
    resultChan,   \* the buffer of the result channel
    closed,       \* whether resultChan has been closed
    wg,           \* sync.WaitGroup counter
    workers,      \* per strategy entry: position and pending result of its goroutine
    closer,       \* position of the goroutine of remediation.go:121-124
    results,      \* collectResults' local slice
    sends,        \* number of sends on resultChan so far
    sent,         \* per strategy entry: the result its goroutine put on the channel, or NoResult
    crashed,      \* an unrecovered panic took the process down
    scanResults,  \* types.ScanResults handed to decision.Engine.Evaluate
    decision,     \* the types.Decision returned by Evaluate
    dpc,          \* position of the Evaluate call: "input" or "done"
    trig,         \* the Protocol whose ShouldExecute is called
    matched,      \* the value ShouldExecute returned
    mpc,          \* position of the ShouldExecute call: "input" or "done"
    firstReturned, \* the strategy entry whose Execute call returned first, 0 if none has
    remediationResults, \* the types.RemediationResults handed to EnrichWithRemediation
    finalDecision, \* ProcessHook's finalDecision after the enrichment step
    epc,          \* position of the enrichment step: "input" or "done"
    arg,          \* the argument of a call of one of the pure helpers
    out,          \* the value that call returned
    fpc,          \* position of that call: "input" or "done"
    calls,        \* the calls made on the Registry so far, with what each returned
    logFile,      \* the lines of the file LogStrategy.Execute appends to
    mu            \* Registry.mu: the goroutine holding the write lock, those holding read locks

vars == <<cfg, input, registry, pc, ret, evaluated, protocol, si, ctx, resultChan,
          closed, wg, workers, closer, results, sends, sent, crashed,
          scanResults, decision, dpc, trig, matched, mpc, firstReturned,
          remediationResults, finalDecision, epc, arg, out, fpc, calls, logFile, mu>>

engineVars == <<cfg, input, registry, pc, ret, evaluated, protocol, si, ctx, resultChan,
                closed, wg, workers, closer, results, sends, sent, crashed, firstReturned>>

decisionVars == <<scanResults, decision, dpc>>

matchVars == <<trig, matched, mpc>>

enrichVars == <<remediationResults, finalDecision, epc>>

callVars == <<arg, out, fpc>>

\* a sync.RWMutex nobody holds
NoLock == [writer |-> 0, readers |-> {}]

----------------------------------------------------------------------------
(* Bounds *)

MaxStrategies == 2

MaxProtocols == 2

MaxFindings == 2

----------------------------------------------------------------------------
(* Strings *)

Upper == <<"A","B","C","D","E","F","G","H","I","J","K","L","M",
           "N","O","P","Q","R","S","T","U","V","W","X","Y","Z">>

Lower == <<"a","b","c","d","e","f","g","h","i","j","k","l","m",
           "n","o","p","q","r","s","t","u","v","w","x","y","z">>

ToLowerCh(c) ==
    IF \E i \in DOMAIN Upper : Upper[i] = c
    THEN Lower[CHOOSE i \in DOMAIN Upper : Upper[i] = c]
    ELSE c

ToLower(s) == [i \in DOMAIN s |-> ToLowerCh(s[i])]

ToUpperCh(c) ==
    IF \E i \in DOMAIN Lower : Lower[i] = c
    THEN Upper[CHOOSE i \in DOMAIN Lower : Lower[i] = c]
    ELSE c

ToUpper(s) == [i \in DOMAIN s |-> ToUpperCh(s[i])]

HasPrefix(s, p) == Len(s) >= Len(p) /\ SubSeq(s, 1, Len(p)) = p

HasSuffix(s, p) == Len(s) >= Len(p) /\ SubSeq(s, Len(s) - Len(p) + 1, Len(s)) = p

Contains(s, c) == \E i \in DOMAIN s : s[i] = c

\* strings.Index: the 0-based offset of the first occurrence of p in s, or -1
Index(s, p) ==
    LET hits == {k \in 0..(Len(s) - Len(p)) : SubSeq(s, k + 1, k + Len(p)) = p}
    IN  IF hits = {} THEN -1 ELSE CHOOSE k \in hits : \A j \in hits : k <= j

\* strings.Split(s, sep) for a one-character separator
RECURSIVE Split(_, _)
Split(s, sep) ==
    IF ~Contains(s, sep) THEN <<s>>
    ELSE LET k == CHOOSE i \in DOMAIN s : s[i] = sep /\ \A j \in 1..(i - 1) : s[j] # sep
         IN  <<SubSeq(s, 1, k - 1)>> \o Split(SubSeq(s, k + 1, Len(s)), sep)

sCritical == <<"c","r","i","t","i","c","a","l">>
sHigh == <<"h","i","g","h">>
sMedium == <<"m","e","d","i","u","m">>
sInfo == <<"i","n","f","o">>
sLow == <<"l","o","w">>
sHIGH == <<"H","I","G","H">>
sCriticalCap == <<"C","r","i","t","i","c","a","l">>
sBogus == <<"n","o","n","e">>
sEmpty == <<>>

----------------------------------------------------------------------------
(* pkg/types and internal/config values *)

\* an error value: <<>> is nil, <<msg>> is an error whose Error() text is msg
NoError == <<>>

EmptyMap == [k \in {} |-> TRUE]

Itoa(n) == <<ToString(n)>>

NewFinding(sev, typ) ==
    [Severity |-> sev, Type |-> typ, Location |-> <<"prompt">>, Description |-> <<"secret">>]

----------------------------------------------------------------------------
(* internal/decision: Engine.Evaluate *)

\* the decision engine's severity table with unrecognized strings ranked as medium
DecisionGetSeverityLevelDefaultMedium(severity) ==
    LET s == ToLower(severity)
    IN  CASE s = sCritical -> 4
          [] s = sHigh -> 3
          [] s = sLow -> 1
          [] OTHER -> 2

\* decision.Engine.getSeverityLevel
DecisionGetSeverityLevel(severity) ==
    LET s == ToLower(severity)
    IN  CASE s = sCritical -> 4
          [] s = sHigh -> 3
          [] s = sMedium \/ s = sInfo -> 2
          [] s = sLow -> 1
          [] OTHER -> 0

\* a filter that keeps only the findings strictly above the threshold
filterBySeverityStrict(findings, thresholdName) ==
    LET threshold == DecisionGetSeverityLevel(thresholdName)
        Keep(f) == DecisionGetSeverityLevel(f.Severity) > threshold
    IN  SelectSeq(findings, Keep)

\* a filter that keeps only the findings exactly at the threshold
filterBySeverityExact(findings, thresholdName) ==
    LET threshold == DecisionGetSeverityLevel(thresholdName)
        Keep(f) == DecisionGetSeverityLevel(f.Severity) = threshold
    IN  SelectSeq(findings, Keep)

filterBySeverity(findings, thresholdName) ==
    LET threshold == DecisionGetSeverityLevel(thresholdName)
        Keep(f) == DecisionGetSeverityLevel(f.Severity) >= threshold
    IN  SelectSeq(findings, Keep)

RECURSIVE findingLines(_, _)
findingLines(findings, i) ==
    IF i > Len(findings) THEN <<>>
    ELSE LET f == findings[i]
         IN  Itoa(i) \o <<". [">> \o ToUpper(f.Severity) \o <<"] ">> \o f.Type
             \o (IF f.Description # <<>> THEN <<": ">> \o f.Description ELSE <<>>)
             \o (IF f.Location # <<>> THEN <<" (">> \o f.Location \o <<")">> ELSE <<>>)
             \o <<"\n">>
             \o findingLines(findings, i + 1)

buildReasonMessage(findings) ==
    IF Len(findings) = 0 THEN <<"Security scan completed with no findings">>
    ELSE <<"\n", "Vault Radar detected ">>
         \o (IF Len(findings) = 1
             THEN <<"1 security finding:\n\n">>
             ELSE Itoa(Len(findings)) \o <<" security findings:\n\n">>)
         \o findingLines(findings, 1)
         \o <<"\nPlease remove or redact sensitive information before proceeding.">>

NewDecision == [Block |-> FALSE, Reason |-> <<>>, Metadata |-> EmptyMap]

\* Evaluate without the early return of decision.go:37: the scan error is
\* recorded, and the findings are then judged as if the scan had succeeded
EvaluateNoEarlyReturn(r, dc) ==
    LET relevantFindings == filterBySeverity(r.Findings, dc.SeverityThreshold)
        errMeta == IF r.Error # NoError THEN ("scan_error" :> r.Error[1]) ELSE EmptyMap
    IN  IF ~r.HasFindings THEN [NewDecision EXCEPT !.Metadata = errMeta]
        ELSE IF Len(relevantFindings) = 0
        THEN [NewDecision EXCEPT !.Metadata = errMeta @@ ("filtered_findings" :> r.Findings)]
        ELSE IF dc.BlockOnFindings
        THEN [Block |-> TRUE, Reason |-> buildReasonMessage(relevantFindings),
              Metadata |-> errMeta @@ ("findings" :> relevantFindings)
                              @@ ("finding_count" :> Len(relevantFindings))]
        ELSE [NewDecision EXCEPT !.Metadata = errMeta]

Evaluate(r, dc) ==
    IF r.Error # NoError
    THEN [NewDecision EXCEPT !.Metadata = ("scan_error" :> r.Error[1])]
    ELSE IF ~r.HasFindings
    THEN NewDecision
    ELSE LET relevantFindings == filterBySeverity(r.Findings, dc.SeverityThreshold)
         IN  IF Len(relevantFindings) = 0
             THEN [NewDecision EXCEPT !.Metadata = ("filtered_findings" :> r.Findings)]
             ELSE IF dc.BlockOnFindings
             THEN [Block |-> TRUE,
                   Reason |-> buildReasonMessage(relevantFindings),
                   Metadata |-> ("findings" :> relevantFindings)
                                @@ ("finding_count" :> Len(relevantFindings))]
             ELSE NewDecision

----------------------------------------------------------------------------
(* internal/remediation: Protocol *)

\* the protocol's severity table with info ranked as low
getSeverityLevelInfoLow(severity) ==
    LET s == ToLower(severity)
    IN  CASE s = sCritical -> 4
          [] s = sHigh -> 3
          [] s = sMedium -> 2
          [] s = sLow \/ s = sInfo -> 1
          [] OTHER -> 0

\* remediation.getSeverityLevel
getSeverityLevel(severity) ==
    LET s == ToLower(severity)
    IN  CASE s = sCritical -> 4
          [] s = sHigh -> 3
          [] s = sMedium \/ s = sInfo -> 2
          [] s = sLow -> 1
          [] OTHER -> 0

\* the loop over the middle parts: Ok stays TRUE while every part is found
RECURSIVE middleParts(_, _, _, _)
middleParts(findingType, parts, i, currentPos) ==
    IF i > Len(parts) - 1 THEN TRUE
    ELSE IF parts[i] = <<>> THEN middleParts(findingType, parts, i + 1, currentPos)
    ELSE LET idx == Index(SubSeq(findingType, currentPos + 1, Len(findingType)), parts[i])
         IN  IF idx = -1 THEN FALSE
             ELSE middleParts(findingType, parts, i + 1, currentPos + idx + Len(parts[i]))

\* matchesPattern without the prefix test of part_004:666-668
matchesPatternNoPrefix(findingType, pattern) ==
    IF pattern = <<"*">> THEN TRUE
    ELSE IF ~Contains(pattern, "*") THEN findingType = pattern
    ELSE LET parts == Split(pattern, "*")
         IN  IF Len(parts) > 1 /\ Len(parts[Len(parts)]) > 0
                /\ ~HasSuffix(findingType, parts[Len(parts)]) THEN FALSE
             ELSE middleParts(findingType, parts, 2, 0)

matchesPattern(findingType, pattern) ==
    IF pattern = <<"*">> THEN TRUE
    ELSE IF ~Contains(pattern, "*") THEN findingType = pattern
    ELSE LET parts == Split(pattern, "*")
         IN  IF Len(parts[1]) > 0 /\ ~HasPrefix(findingType, parts[1]) THEN FALSE
             ELSE IF Len(parts) > 1 /\ Len(parts[Len(parts)]) > 0
                     /\ ~HasSuffix(findingType, parts[Len(parts)]) THEN FALSE
             ELSE middleParts(findingType, parts, 2, Len(parts[1]))

matchesSeverityThreshold(findings, threshold) ==
    LET thresholdLevel == getSeverityLevel(threshold)
    IN  \E i \in DOMAIN findings : getSeverityLevel(findings[i].Severity) >= thresholdLevel

matchesFindingTypes(findings, patterns) ==
    \E i \in DOMAIN findings : \E j \in DOMAIN patterns :
        matchesPattern(findings[i].Type, patterns[j])

\* ShouldExecute accepting as soon as one of its active triggers is satisfied
ShouldExecuteAnyTrigger(p, in) ==
    IF ~p.Triggers.OnBlock /\ ~p.Triggers.OnFindings THEN FALSE
    ELSE IF ~((p.Triggers.OnBlock /\ in.Decision.Block)
              \/ (p.Triggers.OnFindings /\ in.ScanResults.HasFindings)) THEN FALSE
    ELSE IF p.Triggers.SeverityThreshold # <<>> /\ in.ScanResults.HasFindings
            /\ ~matchesSeverityThreshold(in.ScanResults.Findings, p.Triggers.SeverityThreshold)
    THEN FALSE
    ELSE IF Len(p.Triggers.FindingTypes) > 0 /\ in.ScanResults.HasFindings
            /\ ~matchesFindingTypes(in.ScanResults.Findings, p.Triggers.FindingTypes)
    THEN FALSE
    ELSE TRUE

\* ShouldExecute without the veto on a protocol with no active trigger
ShouldExecuteNoVeto(p, in) ==
    IF p.Triggers.OnBlock /\ ~in.Decision.Block THEN FALSE
    ELSE IF p.Triggers.OnFindings /\ ~in.ScanResults.HasFindings THEN FALSE
    ELSE IF p.Triggers.SeverityThreshold # <<>> /\ in.ScanResults.HasFindings
            /\ ~matchesSeverityThreshold(in.ScanResults.Findings, p.Triggers.SeverityThreshold)
    THEN FALSE
    ELSE IF Len(p.Triggers.FindingTypes) > 0 /\ in.ScanResults.HasFindings
            /\ ~matchesFindingTypes(in.ScanResults.Findings, p.Triggers.FindingTypes)
    THEN FALSE
    ELSE TRUE

ShouldExecute(p, in) ==
    IF p.Triggers.OnBlock /\ ~in.Decision.Block THEN FALSE
    ELSE IF p.Triggers.OnFindings /\ ~in.ScanResults.HasFindings THEN FALSE
    ELSE IF ~p.Triggers.OnBlock /\ ~p.Triggers.OnFindings THEN FALSE
    ELSE IF p.Triggers.SeverityThreshold # <<>> /\ in.ScanResults.HasFindings
            /\ ~matchesSeverityThreshold(in.ScanResults.Findings, p.Triggers.SeverityThreshold)
    THEN FALSE
    ELSE IF Len(p.Triggers.FindingTypes) > 0 /\ in.ScanResults.HasFindings
            /\ ~matchesFindingTypes(in.ScanResults.Findings, p.Triggers.FindingTypes)
    THEN FALSE
    ELSE TRUE

----------------------------------------------------------------------------
(* internal/remediation: Engine *)

tLog == <<"log">>

tWebhook == <<"webhook">>

\* config.DefaultConfig.Remediation.TimeoutSeconds
DefaultTimeoutSeconds == 10

\* the zero value of types.RemediationResults
NoResults == [Executed |-> FALSE, Results |-> <<>>, ProtocolName |-> <<>>]

\* the result of an unknown strategy type (remediation.go:107-112); Entry is the
\* position of the strategy entry the result is for (bookkeeping, not a Go field)
unknownResult(strategyType, i) ==
    [StrategyType |-> strategyType, Success |-> FALSE,
     Message |-> <<"Unknown strategy type: ">> \o strategyType,
     Error |-> <<<<"strategy type not found">>>>, Entry |-> i]

\* the result sent from the deferred recover (remediation.go:151-156)
panicResult(strategyType, i) ==
    [StrategyType |-> strategyType, Success |-> FALSE,
     Message |-> <<"Strategy panicked during execution">>,
     Error |-> <<<<"panic">>>>, Entry |-> i]

\* what a strategy's Execute may return, after remediation.go:165-166
strategyResult(strategyType, i, success) ==
    [StrategyType |-> strategyType, Success |-> success,
     Message |-> IF success THEN <<"done">> ELSE <<"failed">>,
     Error |-> IF success THEN NoError ELSE <<<<"strategy error">>>>, Entry |-> i]

\* Registry.GetStrategy: whether the type resolves
HasStrategy(strategyType) == strategyType \in DOMAIN registry

\* the loop of Engine.Execute taking the last matching protocol (no break)
LastMatch(protocols, in) ==
    LET hits == {k \in DOMAIN protocols : ShouldExecute(protocols[k], in)}
    IN  IF hits = {} THEN 0 ELSE CHOOSE k \in hits : \A j \in hits : j <= k

\* the loop of Engine.Execute (remediation.go:57-64): the index of the first
\* protocol whose ShouldExecute is true, 0 if none
FirstMatch(protocols, in) ==
    LET hits == {k \in DOMAIN protocols : ShouldExecute(protocols[k], in)}
    IN  IF hits = {} THEN 0 ELSE CHOOSE k \in hits : \A j \in hits : k <= j

\* a check of the Enabled flag that lets a disabled configuration through
RemediationEnabledAlways(c) == TRUE

\* remediation.go:50
RemediationEnabled(c) == c.Remediation.Enabled

\* a zero-strategy return that reports the protocol as not executed
emptyProtocolResultsNotExecuted(name) ==
    [Executed |-> FALSE, Results |-> <<>>, ProtocolName |-> name]

\* remediation.go:88-95
emptyProtocolResults(name) ==
    [Executed |-> TRUE, Results |-> <<>>, ProtocolName |-> name]

\* a channel sized for the resolved strategies only
ChanCapResolved(strategies) ==
    Cardinality({i \in DOMAIN strategies : HasStrategy(strategies[i].Type)})

\* remediation.go:98: make(chan types.RemediationResult, len(strategies))
ChanCap(strategies) == Len(strategies)

Protocols == cfg.Remediation.Protocols

\* the strategies of the matched protocol
Strategies == IF protocol = 0 THEN <<>> ELSE Protocols[protocol].Strategies

\* out records how the strategy call ended: "", "ok", "fail", "panic" or "hang"
IdleWorker == [pc |-> "idle", res |-> <<>>, out |-> ""]

\* Engine.Execute up to the launch loop: remediation.go:48-73 and 76-99
Execute ==
    /\ pc = "start"
    /\ IF ~RemediationEnabled(cfg)
       THEN /\ ret' = NoResults
            /\ pc' = "returned"
            /\ UNCHANGED <<evaluated, protocol, ctx, workers, sent>>
       ELSE LET k == FirstMatch(Protocols, input)
            IN  /\ evaluated' = IF k = 0 THEN Len(Protocols) ELSE k
                /\ protocol' = k
                /\ IF k = 0
                   THEN /\ ret' = NoResults
                        /\ pc' = "returned"
                        /\ UNCHANGED <<ctx, workers, sent>>
                   ELSE /\ ctx' = "live"
                        /\ IF Len(Protocols[k].Strategies) = 0
                           THEN /\ ret' = emptyProtocolResults(Protocols[k].Name)
                                /\ pc' = "returned"
                                /\ UNCHANGED <<workers, sent>>
                           ELSE /\ pc' = "launch"
                                /\ workers' = [i \in DOMAIN Protocols[k].Strategies |-> IdleWorker]
                                /\ sent' = [i \in DOMAIN Protocols[k].Strategies |-> <<>>]
                                /\ UNCHANGED ret
    /\ UNCHANGED <<decisionVars, matchVars, enrichVars, callVars, calls, logFile, mu, firstReturned, cfg, input, registry, si, resultChan, closed, wg, closer, results,
                   sends, crashed>>

\* the launch loop passing over an unregistered type without a result
LaunchSkipsUnknown ==
    /\ pc = "launch"
    /\ si <= Len(Strategies)
    /\ IF ~HasStrategy(Strategies[si].Type)
       THEN UNCHANGED <<resultChan, sends, sent, wg, workers>>
       ELSE /\ wg' = wg + 1
            /\ workers' = [workers EXCEPT ![si] = [pc |-> "run", res |-> <<>>, out |-> ""]]
            /\ UNCHANGED <<resultChan, sends, sent>>
    /\ si' = si + 1
    /\ UNCHANGED <<decisionVars, matchVars, enrichVars, callVars, calls, logFile, mu, firstReturned, cfg, input, registry, pc, ret, evaluated, protocol, ctx, closed,
                   closer, results, crashed>>

\* one iteration of the launch loop, remediation.go:102-118
Launch ==
    /\ pc = "launch"
    /\ si <= Len(Strategies)
    /\ IF ~HasStrategy(Strategies[si].Type)
       THEN /\ Len(resultChan) < ChanCap(Strategies)
            /\ resultChan' = Append(resultChan, unknownResult(Strategies[si].Type, si))
            /\ sends' = sends + 1
            /\ sent' = [sent EXCEPT ![si] = <<unknownResult(Strategies[si].Type, si)>>]
            /\ UNCHANGED <<wg, workers>>
       ELSE /\ wg' = wg + 1
            /\ workers' = [workers EXCEPT ![si] = [pc |-> "run", res |-> <<>>, out |-> ""]]
            /\ UNCHANGED <<resultChan, sends, sent>>
    /\ si' = si + 1
    /\ UNCHANGED <<decisionVars, matchVars, enrichVars, callVars, calls, logFile, mu, firstReturned, cfg, input, registry, pc, ret, evaluated, protocol, ctx, closed,
                   closer, results, crashed>>

\* remediation.go:121-127: start the closer goroutine, enter collectResults
StartCollect ==
    /\ pc = "launch"
    /\ si > Len(Strategies)
    /\ closer' = "wait"
    /\ pc' = "collect"
    /\ UNCHANGED <<decisionVars, matchVars, enrichVars, callVars, calls, logFile, mu, firstReturned, cfg, input, registry, ret, evaluated, protocol, si, ctx, resultChan,
                   closed, wg, workers, results, sends, sent, crashed>>

\* remediation.go:160-171: the strategy's Execute returns a result, panics, or
\* never returns
StrategyExecute(i) ==
    /\ workers[i].pc = "run"
    /\ \E outcome \in {"ok", "fail", "panic", "hang"} :
         /\ workers' = [workers EXCEPT ![i] =
               CASE outcome = "ok" ->
                      [pc |-> "select", out |-> outcome,
                       res |-> <<strategyResult(Strategies[i].Type, i, TRUE)>>]
                 [] outcome = "fail" ->
                      [pc |-> "select", out |-> outcome,
                       res |-> <<strategyResult(Strategies[i].Type, i, FALSE)>>]
                 [] outcome = "panic" -> [pc |-> "recover", out |-> outcome, res |-> <<>>]
                 [] OTHER -> [pc |-> "hung", out |-> outcome, res |-> <<>>]]
         /\ firstReturned' = IF outcome \in {"ok", "fail"} /\ firstReturned = 0
                             THEN i ELSE firstReturned
    /\ UNCHANGED <<decisionVars, matchVars, enrichVars, callVars, calls, logFile, mu, cfg, input, registry, pc, ret, evaluated, protocol, si, ctx, resultChan,
                   closed, wg, closer, results, sends, sent, crashed>>

\* a send on resultChan by the goroutine of entry i: a send on a closed channel
\* panics, and there is no recover left to catch it
ChanSend(i, r) ==
    IF closed
    THEN /\ crashed' = TRUE
         /\ UNCHANGED <<resultChan, sends, sent>>
    ELSE /\ Len(resultChan) < ChanCap(Strategies)
         /\ resultChan' = Append(resultChan, r)
         /\ sends' = sends + 1
         /\ sent' = [sent EXCEPT ![i] = <<r>>]
         /\ UNCHANGED crashed

\* the select of remediation.go:174-178: Go picks any ready case
WorkerSelect(i) ==
    /\ workers[i].pc = "select"
    /\ \/ ChanSend(i, workers[i].res[1])
       \/ /\ ctx = "done"
          /\ UNCHANGED <<resultChan, sends, sent, crashed>>
    /\ workers' = [workers EXCEPT ![i] = [workers[i] EXCEPT !.pc = "exit", !.res = <<>>]]
    /\ UNCHANGED <<decisionVars, matchVars, enrichVars, callVars, calls, logFile, mu, firstReturned, cfg, input, registry, pc, ret, evaluated, protocol, si, ctx,
                   closed, wg, closer, results>>

\* a recover that swallows the panic and sends nothing
WorkerRecoverSilent(i) ==
    /\ workers[i].pc = "recover"
    /\ workers' = [workers EXCEPT ![i] = [workers[i] EXCEPT !.pc = "exit", !.res = <<>>]]
    /\ UNCHANGED <<decisionVars, matchVars, enrichVars, callVars, calls, logFile, mu, firstReturned, cfg, input, registry, pc, ret, evaluated, protocol, si, ctx,
                   closed, wg, closer, results, resultChan, sends, sent, crashed>>

\* the deferred recover of remediation.go:148-158
WorkerRecover(i) ==
    /\ workers[i].pc = "recover"
    /\ ChanSend(i, panicResult(Strategies[i].Type, i))
    /\ workers' = [workers EXCEPT ![i] = [workers[i] EXCEPT !.pc = "exit", !.res = <<>>]]
    /\ UNCHANGED <<decisionVars, matchVars, enrichVars, callVars, calls, logFile, mu, firstReturned, cfg, input, registry, pc, ret, evaluated, protocol, si, ctx,
                   closed, wg, closer, results>>

\* the worker ending without the deferred wg.Done
WorkerEndsWithoutDone(i) ==
    /\ workers[i].pc = "exit"
    /\ workers' = [workers EXCEPT ![i] = [workers[i] EXCEPT !.pc = "done"]]
    /\ UNCHANGED <<decisionVars, matchVars, enrichVars, callVars, calls, logFile, mu, firstReturned, cfg, input, registry, pc, ret, evaluated, protocol, si, ctx, resultChan,
                   closed, closer, results, sends, sent, crashed, wg>>

\* the deferred wg.Done of remediation.go:145
WorkerDone(i) ==
    /\ workers[i].pc = "exit"
    /\ wg' = wg - 1
    /\ workers' = [workers EXCEPT ![i] = [workers[i] EXCEPT !.pc = "done"]]
    /\ UNCHANGED <<decisionVars, matchVars, enrichVars, callVars, calls, logFile, mu, firstReturned, cfg, input, registry, pc, ret, evaluated, protocol, si, ctx, resultChan,
                   closed, closer, results, sends, sent, crashed>>

\* the closer going on to close without waiting for the counter
CloserNoWait ==
    /\ closer = "wait"
    /\ closer' = "close"
    /\ UNCHANGED <<decisionVars, matchVars, enrichVars, callVars, calls, logFile, mu, firstReturned, cfg, input, registry, pc, ret, evaluated, protocol, si, ctx, resultChan,
                   closed, wg, workers, results, sends, sent, crashed>>

\* remediation.go:122: wg.Wait returns once the counter is zero
CloserWait ==
    /\ closer = "wait"
    /\ wg = 0
    /\ closer' = "close"
    /\ UNCHANGED <<decisionVars, matchVars, enrichVars, callVars, calls, logFile, mu, firstReturned, cfg, input, registry, pc, ret, evaluated, protocol, si, ctx, resultChan,
                   closed, wg, workers, results, sends, sent, crashed>>

\* remediation.go:123
CloserClose ==
    /\ closer = "close"
    /\ closed' = TRUE
    /\ closer' = "done"
    /\ UNCHANGED <<decisionVars, matchVars, enrichVars, callVars, calls, logFile, mu, firstReturned, cfg, input, registry, pc, ret, evaluated, protocol, si, ctx, resultChan,
                   wg, workers, results, sends, sent, crashed>>

\* collectResults putting each received result in front of the earlier ones
CollectPrepend ==
    /\ pc = "collect"
    /\ IF Len(resultChan) > 0
       THEN /\ results' = <<Head(resultChan)>> \o results
            /\ resultChan' = Tail(resultChan)
            /\ UNCHANGED <<pc, ret>>
       ELSE /\ closed
            /\ ret' = [Executed |-> TRUE, Results |-> results,
                       ProtocolName |-> Protocols[protocol].Name]
            /\ pc' = "returned"
            /\ UNCHANGED <<results, resultChan>>
    /\ UNCHANGED <<decisionVars, matchVars, enrichVars, callVars, calls, logFile, mu, firstReturned, cfg, input, registry, evaluated, protocol, si, ctx, closed, wg,
                   workers, closer, sends, sent, crashed>>

\* collectResults, remediation.go:182-188, and the return of remediation.go:135-140:
\* a receive takes a buffered result, and ends the range once the channel is
\* closed and drained
Collect ==
    /\ pc = "collect"
    /\ IF Len(resultChan) > 0
       THEN /\ results' = Append(results, Head(resultChan))
            /\ resultChan' = Tail(resultChan)
            /\ UNCHANGED <<pc, ret>>
       ELSE /\ closed
            /\ ret' = [Executed |-> TRUE, Results |-> results,
                       ProtocolName |-> Protocols[protocol].Name]
            /\ pc' = "returned"
            /\ UNCHANGED <<results, resultChan>>
    /\ UNCHANGED <<decisionVars, matchVars, enrichVars, callVars, calls, logFile, mu, firstReturned, cfg, input, registry, evaluated, protocol, si, ctx, closed, wg,
                   workers, closer, sends, sent, crashed>>

\* the timer running whether or not a timeout is configured
DeadlineFiresUnconfigured ==
    /\ ctx = "live"
    /\ pc \in {"launch", "collect"}
    /\ ctx' = "done"
    /\ UNCHANGED <<decisionVars, matchVars, enrichVars, callVars, calls, logFile, mu, firstReturned, cfg, input, registry, pc, ret, evaluated, protocol, si, resultChan,
                   closed, wg, workers, closer, results, sends, sent, crashed>>

\* the timer of context.WithTimeout (remediation.go:80-85) fires
DeadlineFires ==
    /\ ctx = "live"
    /\ cfg.Remediation.TimeoutSeconds > 0
    /\ pc \in {"launch", "collect"}
    /\ ctx' = "done"
    /\ UNCHANGED <<decisionVars, matchVars, enrichVars, callVars, calls, logFile, mu, firstReturned, cfg, input, registry, pc, ret, evaluated, protocol, si, resultChan,
                   closed, wg, workers, closer, results, sends, sent, crashed>>

----------------------------------------------------------------------------
(* Inputs *)

tAwsKey == <<"a","w","s","_","k">>

tGhTok == <<"g","h","_","t">>

pAwsStar == <<"a","w","s","_","*">>

pStar == <<"*">>

NewScanResults(findings) ==
    [HasFindings |-> Len(findings) > 0, Findings |-> findings, Error |-> NoError]

\* config.DefaultConfig.Decision (constants.go:21-24)
DefaultDecisionConfig == [BlockOnFindings |-> TRUE, SeverityThreshold |-> sMedium]

NewTriggers(onBlock, onFindings, threshold, findingTypes) ==
    [OnBlock |-> onBlock, OnFindings |-> onFindings,
     SeverityThreshold |-> threshold, FindingTypes |-> findingTypes]

NewStrategyConfig(typ) == [Type |-> typ, Config |-> EmptyMap]

NewProtocolConfig(name, triggers, strategies) ==
    [Name |-> name, Triggers |-> triggers, Strategies |-> strategies]

\* n entries of the registered type
LogList(n) == [i \in 1..n |-> NewStrategyConfig(tLog)]

\* n entries, alternating an unregistered and the registered type
MixedList(n) == [i \in 1..n |-> NewStrategyConfig(IF i % 2 = 1 THEN tWebhook ELSE tLog)]

EngineProtocolPool ==
    {NewProtocolConfig(<<"on-block">> \o Itoa(n), NewTriggers(TRUE, FALSE, <<>>, <<>>), LogList(n)) :
        n \in {1, MaxStrategies}}
    \cup {NewProtocolConfig(<<"on-high">>, NewTriggers(FALSE, TRUE, sHigh, <<>>),
                            MixedList(MaxStrategies)),
          NewProtocolConfig(<<"never">>, NewTriggers(FALSE, FALSE, <<>>, <<>>), LogList(1)),
          NewProtocolConfig(<<"aws-empty">>, NewTriggers(FALSE, TRUE, <<>>, <<pAwsStar>>), <<>>)}

\* the configured lists: up to MaxProtocols distinct protocols of the pool, in any order
EngineProtocolLists ==
    UNION {{ps \in [1..n -> EngineProtocolPool] : \A i, j \in 1..n : ps[i] = ps[j] => i = j} :
            n \in 0..MaxProtocols}

EngineScans ==
    {NewScanResults(<<>>),
     NewScanResults(<<NewFinding(sLow, tGhTok)>>),
     NewScanResults(<<NewFinding(sHigh, tAwsKey)>>)}

\* processor.ProcessHook builds the input from the scan and Evaluate's decision
EngineInputs ==
    {[ScanResults |-> sr, Decision |-> Evaluate(sr, dc), Framework |-> <<"claude">>] :
        sr \in EngineScans,
        dc \in {DefaultDecisionConfig, [DefaultDecisionConfig EXCEPT !.BlockOnFindings = FALSE]}}

EngineConfigs ==
    {[Decision |-> DefaultDecisionConfig,
      Remediation |-> [Enabled |-> e, TimeoutSeconds |-> t, Protocols |-> ps]] :
        e \in BOOLEAN, t \in {0, DefaultTimeoutSeconds}, ps \in EngineProtocolLists}

\* the enrichment step's variables while no enrichment is modelled
EnrichOff ==
    /\ remediationResults = NoResults
    /\ finalDecision = NewDecision
    /\ epc = "off"

\* the helper call's variables while no helper call is modelled
CallOff ==
    /\ arg = <<>>
    /\ out = <<>>
    /\ fpc = "off"
    /\ logFile = <<>>
    /\ mu = NoLock

----------------------------------------------------------------------------
(* The remediation engine: one call of Engine.Execute *)

Init ==
    /\ cfg \in EngineConfigs
    /\ input \in EngineInputs
    /\ registry = (tLog :> 1)
    /\ pc = "start"
    /\ ret = NoResults
    /\ evaluated = 0
    /\ protocol = 0
    /\ si = 1
    /\ ctx = "none"
    /\ resultChan = <<>>
    /\ closed = FALSE
    /\ wg = 0
    /\ workers = <<>>
    /\ closer = "none"
    /\ results = <<>>
    /\ sends = 0
    /\ sent = <<>>
    /\ crashed = FALSE
    /\ scanResults = NewScanResults(<<>>)
    /\ decision = NewDecision
    /\ dpc = "off"
    /\ firstReturned = 0
    /\ EnrichOff
    /\ CallOff
    /\ calls = <<>>
    /\ trig = NewProtocolConfig(<<>>, NewTriggers(FALSE, FALSE, <<>>, <<>>), <<>>)
    /\ matched = FALSE
    /\ mpc = "off"

Next ==
    \/ Execute
    \/ Launch
    \/ StartCollect
    \/ \E i \in DOMAIN workers : StrategyExecute(i)
    \/ \E i \in DOMAIN workers : WorkerSelect(i)
    \/ \E i \in DOMAIN workers : WorkerRecover(i)
    \/ \E i \in DOMAIN workers : WorkerDone(i)
    \/ CloserWait
    \/ CloserClose
    \/ Collect
    \/ DeadlineFires

Spec == Init /\ [][Next]_vars

\* The Go scheduler runs every goroutine that can take a step: the caller, each
\* worker and the closer. The timer is left without fairness, so that the
\* deadline may fire or not.
Fairness ==
    /\ WF_vars(Execute)
    /\ WF_vars(Launch)
    /\ WF_vars(StartCollect)
    /\ WF_vars(Collect)
    /\ WF_vars(CloserWait)
    /\ WF_vars(CloserClose)
    /\ \A i \in 1..MaxStrategies :
         /\ WF_vars(i \in DOMAIN workers /\ StrategyExecute(i))
         /\ WF_vars(i \in DOMAIN workers /\ WorkerSelect(i))
         /\ WF_vars(i \in DOMAIN workers /\ WorkerRecover(i))
         /\ WF_vars(i \in DOMAIN workers /\ WorkerDone(i))

\* the calls whose configuration lists at most one protocol
InitFair ==
    /\ Init
    /\ Len(cfg.Remediation.Protocols) <= 1

SpecFair == InitFair /\ [][Next]_vars /\ Fairness

----------------------------------------------------------------------------
(* The decision engine: one call of decision.Engine.Evaluate *)

\* the engine's variables while no Engine.Execute call is modelled
EngineOff ==
    /\ input = [ScanResults |-> NewScanResults(<<>>), Decision |-> NewDecision,
                Framework |-> <<"claude">>]
    /\ registry = (tLog :> 1)
    /\ pc = "off"
    /\ ret = NoResults
    /\ evaluated = 0
    /\ protocol = 0
    /\ si = 1
    /\ ctx = "none"
    /\ resultChan = <<>>
    /\ closed = FALSE
    /\ wg = 0
    /\ workers = <<>>
    /\ closer = "none"
    /\ results = <<>>
    /\ sends = 0
    /\ sent = <<>>
    /\ crashed = FALSE
    /\ firstReturned = 0

DecisionSeverities == {sLow, sMedium, sInfo, sHigh, sHIGH, sCritical, sBogus}

DecisionThresholds == {sLow, sMedium, sInfo, sHigh, sHIGH, sCritical, sCriticalCap, sBogus, sEmpty}

\* the thresholds the severity table knows
RecognizedThresholds == {sLow, sMedium, sInfo, sHigh, sHIGH, sCritical, sCriticalCap}

SeqsUpTo(S, n) == UNION {[1..k -> S] : k \in 0..n}

DecisionScans ==
    {[HasFindings |-> h, Findings |-> fs, Error |-> e] :
        h \in BOOLEAN,
        fs \in SeqsUpTo({NewFinding(sev, tAwsKey) : sev \in DecisionSeverities}, MaxFindings),
        e \in {NoError, <<<<"vault-radar scan failed">>>>}}

DecisionConfigs ==
    {[Decision |-> [BlockOnFindings |-> b, SeverityThreshold |-> t],
      Remediation |-> [Enabled |-> FALSE, TimeoutSeconds |-> DefaultTimeoutSeconds,
                       Protocols |-> <<>>]] :
        b \in BOOLEAN, t \in DecisionThresholds}

InitDecision ==
    /\ cfg \in DecisionConfigs
    /\ scanResults \in DecisionScans
    /\ decision = NewDecision
    /\ dpc = "input"
    /\ EngineOff
    /\ EnrichOff
    /\ CallOff
    /\ calls = <<>>
    /\ trig = NewProtocolConfig(<<>>, NewTriggers(FALSE, FALSE, <<>>, <<>>), <<>>)
    /\ matched = FALSE
    /\ mpc = "off"

\* the error Evaluate returns beside the decision: nil at each of its returns
\* (decision.go:37, 41, 50, 61)
EvaluateErr(r, dc) == NoError

\* processor.go:165: finalDecision, err := p.decisionEngine.Evaluate(ctx, scanResults)
EvaluateCall ==
    /\ dpc = "input"
    /\ decision' = Evaluate(scanResults, cfg.Decision)
    /\ dpc' = "done"
    /\ UNCHANGED <<engineVars, matchVars, enrichVars, callVars, calls, logFile, mu, scanResults>>

NextDecision == EvaluateCall

SpecDecision == InitDecision /\ [][NextDecision]_vars

----------------------------------------------------------------------------
(* The policy matcher: one call of Protocol.ShouldExecute *)

MatchFindings ==
    SeqsUpTo({NewFinding(sev, typ) : sev \in {sLow, sHigh, sBogus}, typ \in {tAwsKey, tGhTok}},
             MaxFindings)

MatchInputs ==
    {[ScanResults |-> [HasFindings |-> h, Findings |-> fs, Error |-> NoError],
      Decision |-> [NewDecision EXCEPT !.Block = b],
      Framework |-> <<"claude">>] :
        h \in BOOLEAN, fs \in MatchFindings, b \in BOOLEAN}

MatchProtocols ==
    {NewProtocolConfig(<<"p">>, NewTriggers(ob, of, th, ft), LogList(1)) :
        ob \in BOOLEAN, of \in BOOLEAN,
        th \in {sEmpty, sLow, sHigh, sCritical},
        ft \in {<<>>, <<pStar>>, <<pAwsStar>>, <<tGhTok>>, <<pAwsStar, tGhTok>>}}

InitMatch ==
    /\ trig \in MatchProtocols
    /\ input \in MatchInputs
    /\ matched = FALSE
    /\ mpc = "input"
    /\ cfg = [Decision |-> DefaultDecisionConfig,
              Remediation |-> [Enabled |-> FALSE, TimeoutSeconds |-> DefaultTimeoutSeconds,
                               Protocols |-> <<>>]]
    /\ registry = (tLog :> 1)
    /\ pc = "off"
    /\ ret = NoResults
    /\ evaluated = 0
    /\ protocol = 0
    /\ si = 1
    /\ ctx = "none"
    /\ resultChan = <<>>
    /\ closed = FALSE
    /\ wg = 0
    /\ workers = <<>>
    /\ closer = "none"
    /\ results = <<>>
    /\ sends = 0
    /\ sent = <<>>
    /\ crashed = FALSE
    /\ scanResults = NewScanResults(<<>>)
    /\ decision = NewDecision
    /\ dpc = "off"
    /\ firstReturned = 0
    /\ EnrichOff
    /\ CallOff
    /\ calls = <<>>

\* remediation.go:58-59: p := NewProtocol(protocolCfg); p.ShouldExecute(input)
ShouldExecuteCall ==
    /\ mpc = "input"
    /\ matched' = ShouldExecute(trig, input)
    /\ mpc' = "done"
    /\ UNCHANGED <<engineVars, decisionVars, enrichVars, callVars, calls, logFile, mu, trig>>

NextMatch == ShouldExecuteCall

SpecMatch == InitMatch /\ [][NextMatch]_vars

----------------------------------------------------------------------------
(* Result enrichment: Evaluate, then EnrichWithRemediation on its decision *)

\* A time.Duration is held as a whole number of microseconds, so that ten
\* seconds fit the model's integers; Milliseconds truncates, as the int64
\* division of time.Duration.Milliseconds does.
Microsecond == 1

Millisecond == 1000 * Microsecond

Milliseconds(d) == d \div Millisecond

MaxDurationMs == 11000

\* fmt.Sprintf("%.1f", float64(ms)/1000.0) rounds the binary value of the
\* quotient to the nearest tenth. When ms ends in 50 the decimal value is a tie
\* and the digit follows the float64 nearest to ms/1000: these are the values
\* of ms up to 12950 whose float64 quotient prints rounded up (the quotient
\* lies above the tie, or is exactly the tie, x.25 or x.75, and the upper
\* tenth is the even one).
TieRoundsUp ==
    {1050, 1350, 1550, 1750, 1850, 2350, 2450, 2750, 2850, 2950, 3350, 3450,
     3750, 3850, 3950, 4150, 4450, 4650, 4750, 4950, 5150, 5450, 5650, 5750,
     5950, 6150, 6450, 6650, 6750, 6950, 7150, 7450, 7650, 7750, 7950, 8050,
     8150, 8550, 8650, 8750, 9050, 9150, 9550, 9650, 9750, 10050, 10150, 10550,
     10650, 10750, 11050, 11150, 11550, 11650, 11750, 12050, 12150, 12550,
     12650, 12750}

\* the number of tenths "%.1f" prints for float64(ms)/1000.0
Tenths(ms) ==
    LET q == ms \div 100
        r == ms % 100
    IN  IF r > 50 \/ (r = 50 /\ ms \in TieRoundsUp) THEN q + 1 ELSE q

\* formatDuration printing the seconds with the tenths cut off, not rounded
formatDurationTruncated(d) ==
    LET ms == Milliseconds(d)
    IN  IF ms < 1000 THEN Itoa(ms) \o <<"ms">>
        ELSE Itoa((ms \div 100) \div 10) \o <<".">> \o Itoa((ms \div 100) % 10) \o <<"s">>

formatDuration(d) ==
    LET ms == Milliseconds(d)
    IN  IF ms < 1000 THEN Itoa(ms) \o <<"ms">>
        ELSE Itoa(Tenths(ms) \div 10) \o <<".">> \o Itoa(Tenths(ms) % 10) \o <<"s">>

\* the loop of decision.go:168-185; the check mark and the ballot x are written
\* by their code points
RECURSIVE resultLines(_, _)
resultLines(rs, i) ==
    IF i > Len(rs) THEN <<>>
    ELSE <<"\n  ">>
         \o (IF rs[i].Success THEN <<"U+2713 ">> ELSE <<"U+2717 ">>)
         \o rs[i].Message
         \o <<" (">> \o formatDuration(rs[i].Duration) \o <<")">>
         \o resultLines(rs, i + 1)

\* buildRemediationSummary writing the plural header whatever the count
buildRemediationSummaryPlural(rr) ==
    <<"Remediation actions taken (">>
    \o Itoa(Len(rr.Results))
    \o <<" strategies, ">>
    \o formatDuration(rr.TotalDuration)
    \o <<" total):">>
    \o resultLines(rr.Results, 1)

buildRemediationSummary(rr) ==
    <<"Remediation actions taken (">>
    \o Itoa(Len(rr.Results))
    \o (IF Len(rr.Results) = 1 THEN <<" strategy, ">> ELSE <<" strategies, ">>)
    \o formatDuration(rr.TotalDuration)
    \o <<" total):">>
    \o resultLines(rr.Results, 1)

\* EnrichWithRemediation lifting the block once every strategy succeeded
EnrichWithRemediationUnblock(d, rr) ==
    IF ~rr.Executed \/ Len(rr.Results) = 0 THEN d
    ELSE [d EXCEPT !.Reason = (IF d.Reason # <<>> THEN d.Reason \o <<"\n\n">> ELSE <<>>)
                                 \o buildRemediationSummary(rr),
                   !.Block = d.Block /\ \E i \in DOMAIN rr.Results : ~rr.Results[i].Success]

\* EnrichWithRemediation without the guard of decision.go:141-143
EnrichWithRemediationUnguarded(d, rr) ==
    [d EXCEPT !.Reason = (IF d.Reason # <<>> THEN d.Reason \o <<"\n\n">> ELSE <<>>)
                            \o buildRemediationSummary(rr)]

EnrichWithRemediation(d, rr) ==
    IF ~rr.Executed \/ Len(rr.Results) = 0 THEN d
    ELSE LET summary == buildRemediationSummary(rr)
         IN  [d EXCEPT !.Reason = IF d.Reason # <<>>
                                  THEN d.Reason \o <<"\n\n">> \o summary
                                  ELSE summary]

MaxResults == 2

EnrichDurations == {500 * Microsecond, 15 * Millisecond, 2345 * Millisecond}

EnrichResultPool ==
    {[StrategyType |-> tLog, Success |-> s,
      Message |-> IF s THEN <<"Logged 2 findings to findings.log">>
                  ELSE <<"Failed to write log">>,
      Duration |-> d, Error |-> IF s THEN NoError ELSE <<<<"write failed">>>>] :
        s \in BOOLEAN, d \in EnrichDurations}

EnrichResults ==
    {[Executed |-> e, Results |-> rs, ProtocolName |-> <<"default">>, TotalDuration |-> td] :
        e \in BOOLEAN,
        rs \in SeqsUpTo(EnrichResultPool, MaxResults),
        td \in {15 * Millisecond, 10847 * Millisecond}}

InitEnrich ==
    /\ cfg \in {[Decision |-> [BlockOnFindings |-> b, SeverityThreshold |-> sMedium],
                 Remediation |-> [Enabled |-> TRUE, TimeoutSeconds |-> DefaultTimeoutSeconds,
                                  Protocols |-> <<>>]] : b \in BOOLEAN}
    /\ scanResults \in EngineScans
    /\ decision = NewDecision
    /\ dpc = "input"
    /\ remediationResults \in EnrichResults
    /\ finalDecision = NewDecision
    /\ epc = "input"
    /\ EngineOff
    /\ CallOff
    /\ calls = <<>>
    /\ trig = NewProtocolConfig(<<>>, NewTriggers(FALSE, FALSE, <<>>, <<>>), <<>>)
    /\ matched = FALSE
    /\ mpc = "off"

\* ProcessHook's enrichment step on the decision Evaluate returned
EnrichCall ==
    /\ dpc = "done"
    /\ epc = "input"
    /\ finalDecision' = IF remediationResults.Executed
                        THEN EnrichWithRemediation(decision, remediationResults)
                        ELSE decision
    /\ epc' = "done"
    /\ UNCHANGED <<engineVars, decisionVars, matchVars, callVars, calls, logFile, mu, remediationResults>>

\* EnrichWithRemediation called on the decision whatever Executed is
EnrichDirect ==
    /\ dpc = "done"
    /\ epc = "input"
    /\ finalDecision' = EnrichWithRemediation(decision, remediationResults)
    /\ epc' = "done"
    /\ UNCHANGED <<engineVars, decisionVars, matchVars, callVars, calls, logFile, mu, remediationResults>>

NextEnrich ==
    \/ EvaluateCall
    \/ EnrichCall
    \/ EnrichDirect

SpecEnrich == InitEnrich /\ [][NextEnrich]_vars

----------------------------------------------------------------------------
(* formatDuration: one call on a duration *)

\* the durations of whole and broken milliseconds up to MaxDurationMs
Durations ==
    {ms * Millisecond + us * Microsecond : ms \in 0..MaxDurationMs, us \in {0, 999}}

\* every variable but those of the helper call, at rest
AllButCallOff ==
    /\ cfg = [Decision |-> DefaultDecisionConfig,
              Remediation |-> [Enabled |-> FALSE, TimeoutSeconds |-> DefaultTimeoutSeconds,
                               Protocols |-> <<>>]]
    /\ EngineOff
    /\ scanResults = NewScanResults(<<>>)
    /\ decision = NewDecision
    /\ dpc = "off"
    /\ trig = NewProtocolConfig(<<>>, NewTriggers(FALSE, FALSE, <<>>, <<>>), <<>>)
    /\ matched = FALSE
    /\ mpc = "off"
    /\ EnrichOff
    /\ calls = <<>>
    /\ logFile = <<>>
    /\ mu = NoLock

InitDuration ==
    /\ arg \in Durations
    /\ out = <<>>
    /\ fpc = "input"
    /\ AllButCallOff

formatDurationCall ==
    /\ fpc = "input"
    /\ out' = formatDuration(arg)
    /\ fpc' = "done"
    /\ UNCHANGED <<engineVars, decisionVars, matchVars, enrichVars, calls, logFile, mu, arg>>

NextDuration == formatDurationCall

SpecDuration == InitDuration /\ [][NextDuration]_vars

----------------------------------------------------------------------------
(* The two severity tables: one call of each getSeverityLevel *)

\* every spelling of s in upper and lower case letters
RECURSIVE CaseVariants(_)
CaseVariants(s) ==
    IF s = <<>> THEN {<<>>}
    ELSE {<<c>> \o t : c \in {ToLowerCh(Head(s)), ToUpperCh(Head(s))},
                       t \in CaseVariants(Tail(s))}

SeverityStrings ==
    UNION {CaseVariants(s) : s \in {sLow, sInfo, sHigh, sMedium, sCritical}}
        \cup {sBogus, sEmpty, <<"l","o">>, <<"h","i","g","h","h">>, <<"I","N","F","O","S">>,
              <<"w","a","r","n","i","n","g">>, <<" ","l","o","w">>}

InitSeverity ==
    /\ arg \in SeverityStrings
    /\ out = <<>>
    /\ fpc = "input"
    /\ AllButCallOff

\* the same severity string given to the decision engine's table and to the
\* protocol's
getSeverityLevelCall ==
    /\ fpc = "input"
    /\ out' = [decision |-> DecisionGetSeverityLevel(arg), protocol |-> getSeverityLevel(arg)]
    /\ fpc' = "done"
    /\ UNCHANGED <<engineVars, decisionVars, matchVars, enrichVars, calls, logFile, mu, arg>>

NextSeverity == getSeverityLevelCall

SpecSeverity == InitSeverity /\ [][NextSeverity]_vars

----------------------------------------------------------------------------
(* internal/remediation: Registry, a sequence of calls on one Registry *)

\* a RemediationStrategy value: IsNil marks the nil interface value, Type is
\* what GetType returns, Valid whether Validate returns nil; id tells two
\* instances of one type apart
NewStrategy(id, strategyType, valid) ==
    [IsNil |-> FALSE, id |-> id, Type |-> strategyType, Valid |-> valid]

NilStrategy == [IsNil |-> TRUE, id |-> 0, Type |-> <<>>, Valid |-> FALSE]

\* RegisterStrategy without the test of part_004:732-734
RegisterStrategyOverwrite(strategies, strategy) ==
    IF strategy.IsNil
    THEN [err |-> <<"strategy cannot be nil">>, strategies |-> strategies]
    ELSE IF strategy.Type = <<>>
    THEN [err |-> <<"strategy type cannot be empty">>, strategies |-> strategies]
    ELSE IF ~strategy.Valid
    THEN [err |-> <<"strategy validation failed: invalid">>, strategies |-> strategies]
    ELSE [err |-> NoError,
          strategies |-> [t \in DOMAIN strategies \cup {strategy.Type} |->
                             IF t = strategy.Type THEN strategy ELSE strategies[t]]]

\* the error RegisterStrategy returns and the table it leaves
RegisterStrategy(strategies, strategy) ==
    IF strategy.IsNil
    THEN [err |-> <<"strategy cannot be nil">>, strategies |-> strategies]
    ELSE IF strategy.Type = <<>>
    THEN [err |-> <<"strategy type cannot be empty">>, strategies |-> strategies]
    ELSE IF ~strategy.Valid
    THEN [err |-> <<"strategy validation failed: invalid">>, strategies |-> strategies]
    ELSE IF strategy.Type \in DOMAIN strategies
    THEN [err |-> <<"strategy type is already registered">>, strategies |-> strategies]
    ELSE [err |-> NoError,
          strategies |-> [t \in DOMAIN strategies \cup {strategy.Type} |->
                             IF t = strategy.Type THEN strategy ELSE strategies[t]]]

\* the strategy and the error GetStrategy returns
GetStrategy(strategies, strategyType) ==
    IF strategyType \notin DOMAIN strategies
    THEN [strategy |-> NilStrategy, err |-> <<"strategy type not found">>]
    ELSE [strategy |-> strategies[strategyType], err |-> NoError]

\* the error UnregisterStrategy returns and the table it leaves
UnregisterStrategy(strategies, strategyType) ==
    IF strategyType \notin DOMAIN strategies
    THEN [err |-> <<"strategy type not found">>, strategies |-> strategies]
    ELSE [err |-> NoError,
          strategies |-> [t \in DOMAIN strategies \ {strategyType} |-> strategies[t]]]

MaxCalls == 4

RegistryStrategies ==
    {NewStrategy(1, tLog, TRUE), NewStrategy(2, tLog, TRUE), NewStrategy(3, tWebhook, TRUE),
     NewStrategy(4, tWebhook, FALSE), NewStrategy(5, <<>>, TRUE), NilStrategy}

RegistryTypes == {tLog, tWebhook, <<>>}

InitRegistry ==
    /\ registry = <<>>
    /\ calls = <<>>
    /\ cfg = [Decision |-> DefaultDecisionConfig,
              Remediation |-> [Enabled |-> FALSE, TimeoutSeconds |-> DefaultTimeoutSeconds,
                               Protocols |-> <<>>]]
    /\ input = [ScanResults |-> NewScanResults(<<>>), Decision |-> NewDecision,
                Framework |-> <<"claude">>]
    /\ pc = "off"
    /\ ret = NoResults
    /\ evaluated = 0
    /\ protocol = 0
    /\ si = 1
    /\ ctx = "none"
    /\ resultChan = <<>>
    /\ closed = FALSE
    /\ wg = 0
    /\ workers = <<>>
    /\ closer = "none"
    /\ results = <<>>
    /\ sends = 0
    /\ sent = <<>>
    /\ crashed = FALSE
    /\ firstReturned = 0
    /\ scanResults = NewScanResults(<<>>)
    /\ decision = NewDecision
    /\ dpc = "off"
    /\ trig = NewProtocolConfig(<<>>, NewTriggers(FALSE, FALSE, <<>>, <<>>), <<>>)
    /\ matched = FALSE
    /\ mpc = "off"
    /\ EnrichOff
    /\ CallOff

\* what every call on the Registry leaves alone
RegistryFrame ==
    UNCHANGED <<cfg, input, pc, ret, evaluated, protocol, si, ctx, resultChan, closed, wg,
                workers, closer, results, sends, sent, crashed, firstReturned,
                decisionVars, matchVars, enrichVars, callVars, logFile, mu>>

RegisterStrategyCall ==
    /\ Len(calls) < MaxCalls
    /\ \E strategy \in RegistryStrategies :
         LET r == RegisterStrategy(registry, strategy)
         IN  /\ registry' = r.strategies
             /\ calls' = Append(calls, [op |-> "RegisterStrategy", strategy |-> strategy,
                                        strategyType |-> strategy.Type, err |-> r.err,
                                        got |-> NilStrategy, strategies |-> r.strategies])
    /\ RegistryFrame

GetStrategyCall ==
    /\ Len(calls) < MaxCalls
    /\ \E strategyType \in RegistryTypes :
         LET r == GetStrategy(registry, strategyType)
         IN  /\ registry' = registry
             /\ calls' = Append(calls, [op |-> "GetStrategy", strategy |-> NilStrategy,
                                        strategyType |-> strategyType, err |-> r.err,
                                        got |-> r.strategy, strategies |-> registry])
    /\ RegistryFrame

UnregisterStrategyCall ==
    /\ Len(calls) < MaxCalls
    /\ \E strategyType \in RegistryTypes :
         LET r == UnregisterStrategy(registry, strategyType)
         IN  /\ registry' = r.strategies
             /\ calls' = Append(calls, [op |-> "UnregisterStrategy", strategy |-> NilStrategy,
                                        strategyType |-> strategyType, err |-> r.err,
                                        got |-> NilStrategy, strategies |-> r.strategies])
    /\ RegistryFrame

NextRegistry ==
    \/ RegisterStrategyCall
    \/ GetStrategyCall
    \/ UnregisterStrategyCall

SpecRegistry == InitRegistry /\ [][NextRegistry]_vars

----------------------------------------------------------------------------
(* matchesPattern: one call on a finding type and a pattern *)

MaxTypeLen == 3

MaxPatternLen == 3

\* finding types over a two-letter alphabet, and the two named ones
PatternTypes == SeqsUpTo({"a", "b"}, MaxTypeLen) \cup {tAwsKey, tGhTok}

\* patterns over the same alphabet and the wildcard, and the two named ones
Patterns == SeqsUpTo({"a", "b", "*"}, MaxPatternLen) \cup {pAwsStar, pStar}

InitPattern ==
    /\ arg \in {[findingType |-> t, pattern |-> p] : t \in PatternTypes, p \in Patterns}
    /\ out = <<>>
    /\ fpc = "input"
    /\ AllButCallOff

\* the call of part_004:623 in matchesFindingTypes
matchesPatternCall ==
    /\ fpc = "input"
    /\ out' = matchesPattern(arg.findingType, arg.pattern)
    /\ fpc' = "done"
    /\ UNCHANGED <<engineVars, decisionVars, matchVars, enrichVars, calls, logFile, mu, arg>>

NextPattern == matchesPatternCall

SpecPattern == InitPattern /\ [][NextPattern]_vars

----------------------------------------------------------------------------
(* internal/remediation/strategies: one call of LogStrategy.Execute *)

\* the failed result of one of Execute's early returns
logFailure(message, err) ==
    [StrategyType |-> tLog, Success |-> FALSE, Message |-> message, Error |-> <<err>>]

\* ctx.Err() of a context that is done
ctxErr == <<"context canceled">>

\* the entry formatJSON or formatText builds for the input
logContent(format, in) ==
    <<format, "blocked", in.Decision.Block, "finding_count", Len(in.ScanResults.Findings)>>

LogStrategies == {[logFile |-> <<"findings.log">>, format |-> f] : f \in {"json", "text", "xml"}}

InitLog ==
    /\ arg \in LogStrategies
    /\ input \in EngineInputs
    /\ ctx \in {"live", "done"}
    /\ out = <<>>
    /\ fpc = "start"
    /\ logFile = <<>>
    /\ mu = NoLock
    /\ cfg = [Decision |-> DefaultDecisionConfig,
              Remediation |-> [Enabled |-> TRUE, TimeoutSeconds |-> DefaultTimeoutSeconds,
                               Protocols |-> <<>>]]
    /\ registry = (tLog :> 1)
    /\ pc = "off"
    /\ ret = NoResults
    /\ evaluated = 0
    /\ protocol = 0
    /\ si = 1
    /\ resultChan = <<>>
    /\ closed = FALSE
    /\ wg = 0
    /\ workers = <<>>
    /\ closer = "none"
    /\ results = <<>>
    /\ sends = 0
    /\ sent = <<>>
    /\ crashed = FALSE
    /\ firstReturned = 0
    /\ scanResults = NewScanResults(<<>>)
    /\ decision = NewDecision
    /\ dpc = "off"
    /\ trig = NewProtocolConfig(<<>>, NewTriggers(FALSE, FALSE, <<>>, <<>>), <<>>)
    /\ matched = FALSE
    /\ mpc = "off"
    /\ EnrichOff
    /\ calls = <<>>

\* what no step of Execute changes
LogFrame ==
    UNCHANGED <<cfg, input, registry, pc, ret, evaluated, protocol, si, resultChan, closed, wg,
                workers, closer, results, sends, sent, crashed, firstReturned,
                decisionVars, matchVars, enrichVars, calls, arg, mu>>

\* the context is cancelled, or its deadline passes, while Execute runs
LogCtxDone ==
    /\ fpc \notin {"off", "done"}
    /\ ctx = "live"
    /\ ctx' = "done"
    /\ UNCHANGED <<out, fpc, logFile>>
    /\ LogFrame

\* log.go:49-59
LogCheckStart ==
    /\ fpc = "start"
    /\ IF ctx = "done"
       THEN /\ out' = logFailure(<<"Log operation cancelled">>, ctxErr)
            /\ fpc' = "done"
       ELSE /\ fpc' = "expand"
            /\ UNCHANGED out
    /\ UNCHANGED <<ctx, logFile>>
    /\ LogFrame

\* log.go:62-70: expandPath fails (no home directory) or gives the path
LogExpandPath ==
    /\ fpc = "expand"
    /\ \/ /\ out' = logFailure(<<"Failed to expand log path: ", "no home">>, <<"no home">>)
          /\ fpc' = "done"
       \/ /\ fpc' = "mkdir"
          /\ UNCHANGED out
    /\ UNCHANGED <<ctx, logFile>>
    /\ LogFrame

\* log.go:73-80
LogMkdirAll ==
    /\ fpc = "mkdir"
    /\ \/ /\ out' = logFailure(<<"Failed to create log directory: ", "denied">>, <<"denied">>)
          /\ fpc' = "done"
       \/ /\ fpc' = "open"
          /\ UNCHANGED out
    /\ UNCHANGED <<ctx, logFile>>
    /\ LogFrame

\* log.go:83-92
LogOpenFile ==
    /\ fpc = "open"
    /\ \/ /\ out' = logFailure(<<"Failed to open log file: ", "denied">>, <<"denied">>)
          /\ fpc' = "done"
       \/ /\ fpc' = "format"
          /\ UNCHANGED out
    /\ UNCHANGED <<ctx, logFile>>
    /\ LogFrame

\* log.go:95-114
LogFormat ==
    /\ fpc = "format"
    /\ IF arg.format \in {"json", "text"}
       THEN \/ /\ fpc' = "precheck"
               /\ UNCHANGED out
            \/ /\ arg.format = "json"
               /\ out' = logFailure(<<"Failed to format log content: ", "failed to marshal JSON">>,
                                    <<"failed to marshal JSON">>)
               /\ fpc' = "done"
       ELSE /\ out' = logFailure(<<"Failed to format log content: ", "unsupported format: ",
                                   arg.format>>, <<"unsupported format: ", arg.format>>)
            /\ fpc' = "done"
    /\ UNCHANGED <<ctx, logFile>>
    /\ LogFrame

\* the second check skipped: Execute goes on to write whatever the context says
LogCheckBeforeWriteSkipped ==
    /\ fpc = "precheck"
    /\ fpc' = "write"
    /\ UNCHANGED <<out, ctx, logFile>>
    /\ LogFrame

\* log.go:117-126
LogCheckBeforeWrite ==
    /\ fpc = "precheck"
    /\ IF ctx = "done"
       THEN /\ out' = logFailure(<<"Log operation cancelled before write">>, ctxErr)
            /\ fpc' = "done"
       ELSE /\ fpc' = "write"
            /\ UNCHANGED out
    /\ UNCHANGED <<ctx, logFile>>
    /\ LogFrame

\* log.go:129-155
LogWrite ==
    /\ fpc = "write"
    /\ \/ /\ out' = logFailure(<<"Failed to write to log file: ", "disk full">>, <<"disk full">>)
          /\ UNCHANGED logFile
       \/ /\ logFile' = Append(logFile, logContent(arg.format, input))
          /\ out' = [StrategyType |-> tLog, Success |-> TRUE,
                     Message |-> IF Len(input.ScanResults.Findings) = 1
                                 THEN <<"Logged 1 finding to ">> \o arg.logFile
                                 ELSE <<"Logged ">> \o Itoa(Len(input.ScanResults.Findings))
                                      \o <<" findings to ">> \o arg.logFile,
                     Error |-> NoError]
    /\ fpc' = "done"
    /\ UNCHANGED ctx
    /\ LogFrame

NextLog ==
    \/ LogCtxDone
    \/ LogCheckStart
    \/ LogExpandPath
    \/ LogMkdirAll
    \/ LogOpenFile
    \/ LogFormat
    \/ LogCheckBeforeWrite
    \/ LogWrite

SpecLog == InitLog /\ [][NextLog]_vars

----------------------------------------------------------------------------
(* internal/remediation: Registry, goroutines calling one Registry at once *)

MaxGoroutines == 3

\* the call goroutine g makes: a registration of its own instance of the one
\* type, or a lookup of that type; at is the goroutine's position in the call
ConcurrentCall(g, op) ==
    [op |-> op,
     strategy |-> IF op = "RegisterStrategy" THEN NewStrategy(g, tLog, TRUE) ELSE NilStrategy,
     strategyType |-> tLog, at |-> "start", err |-> NoError, got |-> NilStrategy, has |-> FALSE]

ConcurrentCalls ==
    UNION {{[g \in 1..n |-> ConcurrentCall(g, ops[g])] :
                ops \in [1..n -> {"RegisterStrategy", "GetStrategy", "HasStrategy"}]} :
            n \in 1..MaxGoroutines}

InitConcurrent ==
    /\ registry = <<>>
    /\ calls \in ConcurrentCalls
    /\ mu = NoLock
    /\ cfg = [Decision |-> DefaultDecisionConfig,
              Remediation |-> [Enabled |-> FALSE, TimeoutSeconds |-> DefaultTimeoutSeconds,
                               Protocols |-> <<>>]]
    /\ input = [ScanResults |-> NewScanResults(<<>>), Decision |-> NewDecision,
                Framework |-> <<"claude">>]
    /\ pc = "off"
    /\ ret = NoResults
    /\ evaluated = 0
    /\ protocol = 0
    /\ si = 1
    /\ ctx = "none"
    /\ resultChan = <<>>
    /\ closed = FALSE
    /\ wg = 0
    /\ workers = <<>>
    /\ closer = "none"
    /\ results = <<>>
    /\ sends = 0
    /\ sent = <<>>
    /\ crashed = FALSE
    /\ firstReturned = 0
    /\ scanResults = NewScanResults(<<>>)
    /\ decision = NewDecision
    /\ dpc = "off"
    /\ trig = NewProtocolConfig(<<>>, NewTriggers(FALSE, FALSE, <<>>, <<>>), <<>>)
    /\ matched = FALSE
    /\ mpc = "off"
    /\ EnrichOff
    /\ arg = <<>>
    /\ out = <<>>
    /\ fpc = "off"
    /\ logFile = <<>>

\* what every step of a call on the Registry leaves alone
ConcurrentFrame ==
    UNCHANGED <<cfg, input, pc, ret, evaluated, protocol, si, ctx, resultChan, closed, wg,
                workers, closer, results, sends, sent, crashed, firstReturned,
                decisionVars, matchVars, enrichVars, callVars, logFile>>

\* part_004:715-727: the nil, type and Validate tests, made before the lock is taken
RegisterValidate(g) ==
    /\ calls[g].op = "RegisterStrategy"
    /\ calls[g].at = "start"
    /\ LET strategy == calls[g].strategy
       IN  calls' = [calls EXCEPT ![g] =
              IF strategy.IsNil
              THEN [@ EXCEPT !.at = "done", !.err = <<"strategy cannot be nil">>]
              ELSE IF strategy.Type = <<>>
              THEN [@ EXCEPT !.at = "done", !.err = <<"strategy type cannot be empty">>]
              ELSE IF ~strategy.Valid
              THEN [@ EXCEPT !.at = "done", !.err = <<"strategy validation failed: invalid">>]
              ELSE [@ EXCEPT !.at = "lock"]]
    /\ UNCHANGED <<registry, mu>>
    /\ ConcurrentFrame

\* r.mu.Lock() taking the lock without waiting for its holders
RegisterLockNoWait(g) ==
    /\ calls[g].op = "RegisterStrategy"
    /\ calls[g].at = "lock"
    /\ mu' = [mu EXCEPT !.writer = g]
    /\ calls' = [calls EXCEPT ![g].at = "locked"]
    /\ UNCHANGED registry
    /\ ConcurrentFrame

\* part_004:729: r.mu.Lock() waits until no goroutine holds the lock
RegisterLock(g) ==
    /\ calls[g].op = "RegisterStrategy"
    /\ calls[g].at = "lock"
    /\ mu.writer = 0
    /\ mu.readers = {}
    /\ mu' = [mu EXCEPT !.writer = g]
    /\ calls' = [calls EXCEPT ![g].at = "locked"]
    /\ UNCHANGED registry
    /\ ConcurrentFrame

\* part_004:732-734: the test for an entry of the type; the deferred Unlock
\* runs when the call returns the duplicate error
RegisterExists(g) ==
    /\ calls[g].op = "RegisterStrategy"
    /\ calls[g].at = "locked"
    /\ IF calls[g].strategyType \in DOMAIN registry
       THEN /\ calls' = [calls EXCEPT ![g].at = "done",
                                      ![g].err = <<"strategy type is already registered">>]
            /\ mu' = [mu EXCEPT !.writer = 0]
       ELSE /\ calls' = [calls EXCEPT ![g].at = "store"]
            /\ UNCHANGED mu
    /\ UNCHANGED registry
    /\ ConcurrentFrame

\* part_004:736-737: the map write, return nil and the deferred Unlock
RegisterStore(g) ==
    /\ calls[g].op = "RegisterStrategy"
    /\ calls[g].at = "store"
    /\ registry' = [t \in DOMAIN registry \cup {calls[g].strategyType} |->
                      IF t = calls[g].strategyType THEN calls[g].strategy ELSE registry[t]]
    /\ calls' = [calls EXCEPT ![g].at = "done", ![g].err = NoError]
    /\ mu' = [mu EXCEPT !.writer = 0]
    /\ ConcurrentFrame

\* part_004:742, 767: r.mu.RLock() waits while a goroutine holds the write lock
RLock(g) ==
    /\ calls[g].op \in {"GetStrategy", "HasStrategy"}
    /\ calls[g].at = "start"
    /\ mu.writer = 0
    /\ mu' = [mu EXCEPT !.readers = @ \cup {g}]
    /\ calls' = [calls EXCEPT ![g].at = "rlocked"]
    /\ UNCHANGED registry
    /\ ConcurrentFrame

\* part_004:745-750: the map read of GetStrategy, its return and the deferred RUnlock
GetStrategyRead(g) ==
    /\ calls[g].op = "GetStrategy"
    /\ calls[g].at = "rlocked"
    /\ LET r == GetStrategy(registry, calls[g].strategyType)
       IN  calls' = [calls EXCEPT ![g].at = "done", ![g].got = r.strategy, ![g].err = r.err]
    /\ mu' = [mu EXCEPT !.readers = @ \ {g}]
    /\ UNCHANGED registry
    /\ ConcurrentFrame

\* part_004:770-771: the map read of HasStrategy, its return and the deferred RUnlock
HasStrategyRead(g) ==
    /\ calls[g].op = "HasStrategy"
    /\ calls[g].at = "rlocked"
    /\ calls' = [calls EXCEPT ![g].at = "done",
                              ![g].has = calls[g].strategyType \in DOMAIN registry]
    /\ mu' = [mu EXCEPT !.readers = @ \ {g}]
    /\ UNCHANGED registry
    /\ ConcurrentFrame

NextConcurrent ==
    \/ \E g \in DOMAIN calls : RegisterValidate(g)
    \/ \E g \in DOMAIN calls : RegisterLock(g)
    \/ \E g \in DOMAIN calls : RegisterExists(g)
    \/ \E g \in DOMAIN calls : RegisterStore(g)
    \/ \E g \in DOMAIN calls : RLock(g)
    \/ \E g \in DOMAIN calls : GetStrategyRead(g)
    \/ \E g \in DOMAIN calls : HasStrategyRead(g)

SpecConcurrent == InitConcurrent /\ [][NextConcurrent]_vars

----------------------------------------------------------------------------
(* The remediation engine on protocols that mix registered and unregistered types *)

\* one protocol that runs on a block, its strategy entries every list of 1 to
\* MaxStrategies entries over the registered type and an unregistered one
UnresolvedProtocols ==
    UNION {{NewProtocolConfig(<<"mixed">>, NewTriggers(TRUE, FALSE, <<>>, <<>>),
                              [i \in 1..n |-> NewStrategyConfig(ts[i])]) :
                ts \in [1..n -> {tLog, tWebhook}]} :
            n \in 1..MaxStrategies}

UnresolvedConfigs ==
    {[Decision |-> DefaultDecisionConfig,
      Remediation |-> [Enabled |-> TRUE, TimeoutSeconds |-> t, Protocols |-> <<p>>]] :
        t \in {0, DefaultTimeoutSeconds}, p \in UnresolvedProtocols}

InitUnresolved ==
    /\ cfg \in UnresolvedConfigs
    /\ input \in EngineInputs
    /\ registry = (tLog :> 1)
    /\ pc = "start"
    /\ ret = NoResults
    /\ evaluated = 0
    /\ protocol = 0
    /\ si = 1
    /\ ctx = "none"
    /\ resultChan = <<>>
    /\ closed = FALSE
    /\ wg = 0
    /\ workers = <<>>
    /\ closer = "none"
    /\ results = <<>>
    /\ sends = 0
    /\ sent = <<>>
    /\ crashed = FALSE
    /\ scanResults = NewScanResults(<<>>)
    /\ decision = NewDecision
    /\ dpc = "off"
    /\ firstReturned = 0
    /\ EnrichOff
    /\ CallOff
    /\ calls = <<>>
    /\ trig = NewProtocolConfig(<<>>, NewTriggers(FALSE, FALSE, <<>>, <<>>), <<>>)
    /\ matched = FALSE
    /\ mpc = "off"

SpecUnresolved == InitUnresolved /\ [][Next]_vars

----------------------------------------------------------------------------
(* NewProcessor's startup registration, then one call of Engine.Execute *)

\* the *LogStrategy and the error NewLogStrategy returns for a strategy entry
\* (log.go:22-44, with Validate of log.go:164-174)
NewLogStrategy(strategyCfg) ==
    LET c == strategyCfg.Config
        file == IF "log_file" \in DOMAIN c THEN c["log_file"] ELSE <<>>
        format == IF "format" \in DOMAIN c /\ c["format"] # "" THEN c["format"] ELSE "json"
        strategy == [IsNil |-> FALSE, id |-> 0, Type |-> tLog, Valid |-> TRUE,
                     logFile |-> file, format |-> format]
    IN  IF file = <<>>
        THEN [strategy |-> NilStrategy, err |-> <<"log_file is required">>]
        ELSE IF format \notin {"json", "text"}
        THEN [strategy |-> NilStrategy, err |-> <<"format must be 'json' or 'text'">>]
        ELSE [strategy |-> strategy, err |-> NoError]

\* the strategy entry of the protocol listed first: a valid log entry, a log
\* entry with a format Validate rejects, or an entry of a type the program has
\* no strategy for
StartupFirstEntries ==
    {[Type |-> tLog, Config |-> ("log_file" :> <<"a.log">> @@ "format" :> "text")],
     [Type |-> tLog, Config |-> ("log_file" :> <<"c.log">> @@ "format" :> "xml")],
     [Type |-> tWebhook, Config |-> EmptyMap]}

\* the strategy entries of the protocol that runs: a log entry with a valid
\* setting of its own, and one without log_file
StartupEntries ==
    {[Type |-> tLog, Config |-> ("log_file" :> <<"b.log">>)],
     [Type |-> tLog, Config |-> EmptyMap]}

\* a protocol that never runs, listed first, and a protocol that runs on a block
StartupConfigs ==
    {[Decision |-> DefaultDecisionConfig,
      Remediation |->
        [Enabled |-> TRUE, TimeoutSeconds |-> DefaultTimeoutSeconds,
         Protocols |-> <<NewProtocolConfig(<<"never">>, NewTriggers(FALSE, FALSE, <<>>, <<>>),
                                           <<first>>),
                         NewProtocolConfig(<<"on-block">>, NewTriggers(TRUE, FALSE, <<>>, <<>>),
                                           rest)>>]] :
        first \in StartupFirstEntries,
        rest \in UNION {[1..n -> StartupEntries] : n \in 1..MaxStrategies}}

\* a scan with a finding, blocked by Evaluate
StartupInputs ==
    {[ScanResults |-> sr, Decision |-> Evaluate(sr, DefaultDecisionConfig),
      Framework |-> <<"claude">>] :
        sr \in {NewScanResults(<<NewFinding(sHigh, tAwsKey)>>)}}

\* the strategy entries of all protocols in the order the loops of
\* part_006:54-55 visit them
RECURSIVE strategyEntries(_, _)
strategyEntries(protocols, p) ==
    IF p > Len(protocols) THEN <<>>
    ELSE [s \in DOMAIN protocols[p].Strategies |->
             [protocol |-> p, entry |-> s, strategyCfg |-> protocols[p].Strategies[s]]]
         \o strategyEntries(protocols, p + 1)

InitStartup ==
    /\ cfg \in StartupConfigs
    /\ input \in StartupInputs
    /\ registry = <<>>
    /\ pc = "register"
    /\ ret = NoResults
    /\ evaluated = 0
    /\ protocol = 0
    /\ si = 1
    /\ ctx = "none"
    /\ resultChan = <<>>
    /\ closed = FALSE
    /\ wg = 0
    /\ workers = <<>>
    /\ closer = "none"
    /\ results = <<>>
    /\ sends = 0
    /\ sent = <<>>
    /\ crashed = FALSE
    /\ scanResults = NewScanResults(<<>>)
    /\ decision = NewDecision
    /\ dpc = "off"
    /\ firstReturned = 0
    /\ EnrichOff
    /\ CallOff
    /\ calls = <<>>
    /\ trig = NewProtocolConfig(<<>>, NewTriggers(FALSE, FALSE, <<>>, <<>>), <<>>)
    /\ matched = FALSE
    /\ mpc = "off"

\* one iteration of the inner loop of registerRemediationStrategies
\* (part_006:55-69), on the entry after those already visited; calls records
\* what the iteration did, the instance it built carrying the number of its entry
registerRemediationStrategies ==
    /\ pc = "register"
    /\ LET n == Len(calls) + 1
           e == strategyEntries(Protocols, 1)[n]
           made == NewLogStrategy(e.strategyCfg)
           logStrategy == [made.strategy EXCEPT !.id = n]
           r == RegisterStrategy(registry, logStrategy)
           call == [op |-> "RegisterStrategy", strategyType |-> e.strategyCfg.Type,
                    strategy |-> NilStrategy, err |-> NoError]
       IN  /\ IF e.strategyCfg.Type # tLog
              THEN /\ calls' = Append(calls, [call EXCEPT !.op = "default",
                                                          !.err = <<"unknown strategy type">>])
                   /\ UNCHANGED registry
              ELSE IF made.err # NoError
              THEN /\ calls' = Append(calls, [call EXCEPT !.op = "NewLogStrategy",
                                                          !.err = made.err])
                   /\ UNCHANGED registry
              ELSE /\ calls' = Append(calls, [call EXCEPT !.strategy = logStrategy,
                                                          !.err = r.err])
                   /\ registry' = r.strategies
           /\ pc' = IF n = Len(strategyEntries(Protocols, 1)) THEN "start" ELSE "register"
    /\ UNCHANGED <<decisionVars, matchVars, enrichVars, callVars, logFile, mu, firstReturned,
                   cfg, input, ret, evaluated, protocol, si, ctx, resultChan, closed, wg,
                   workers, closer, results, sends, sent, crashed>>

NextStartup ==
    \/ registerRemediationStrategies
    \/ Next

SpecStartup == InitStartup /\ [][NextStartup]_vars

----------------------------------------------------------------------------
(* Properties of the remediation engine *)

\* the results delivered so far, in order: collected ones, then buffered ones
Delivered == IF pc = "returned" THEN ret.Results ELSE results \o resultChan

\* the positions in Delivered of the results for strategy entry i
EntriesFor(i) == {k \in DOMAIN Delivered : Delivered[k].Entry = i}

\* the protocols of the configuration that match the input
Matching == {k \in DOMAIN Protocols : ShouldExecute(Protocols[k], input)}

\* C1: every run of Engine.Execute that matches a protocol with N >= 1 strategies
\* returns exactly N results, one per configured strategy entry, in every
\* interleaving of workers, collector and deadline.
C1_ExactlyNResults ==
    (pc = "returned" /\ protocol # 0 /\ Len(Strategies) >= 1)
        => /\ Len(ret.Results) = Len(Strategies)
           /\ \A i \in DOMAIN Strategies : Cardinality(EntriesFor(i)) = 1

\* C2: a panic inside a strategy's Execute is caught at the worker boundary: the
\* process does not crash, the panicking entry gets exactly one result, with
\* Success = FALSE and a non-nil Error, and every result a sibling put on the
\* channel is delivered once and unaltered; at the return all of them are in
\* Results.
C2_PanicIsolated ==
    /\ ~crashed
    /\ \A i \in DOMAIN workers :
         (workers[i].out = "panic" /\ workers[i].pc \in {"exit", "done"})
            => /\ Cardinality(EntriesFor(i)) = 1
               /\ \A k \in EntriesFor(i) :
                    /\ Delivered[k].Success = FALSE
                    /\ Delivered[k].Error # NoError
                    /\ Delivered[k].StrategyType = Strategies[i].Type
               /\ \A j \in DOMAIN workers \ {i} :
                    sent[j] # <<>>
                       => /\ Cardinality(EntriesFor(j)) = 1
                          /\ \A k \in EntriesFor(j) : Delivered[k] = sent[j][1]
    /\ pc = "returned"
         => \A i \in DOMAIN workers : workers[i].out = "panic" => workers[i].pc = "done"

C2_Witness ==
    /\ pc = "returned"
    /\ \E i, j \in DOMAIN workers :
         /\ workers[i].out = "panic"
         /\ workers[j].out = "ok"
         /\ sent[j] # <<>>
         /\ Len(ret.Results) = 2
         /\ ret.Results[1].Entry = i

\* C3: once the shared deadline has fired, Engine.Execute stops waiting and
\* returns, even if a launched strategy never returns: in no state after the
\* deadline is the call left unreturned with nothing able to move.
C3_DeadlineEndsTheWait ==
    (ctx = "done" /\ pc # "returned") => ENABLED Next

\* C4: no send on the result channel can block: at most N results are ever sent
\* on the channel of capacity N, and whenever the launch loop is about to send
\* for an unknown type, or a worker's strategy call has returned or panicked,
\* the channel is open and has room, so the worker can go on to wg.Done.
C4_SendsNeverBlock ==
    /\ sends <= Len(Strategies)
    /\ Len(resultChan) <= Len(Strategies)
    /\ (pc = "launch" /\ si <= Len(Strategies) /\ ~HasStrategy(Strategies[si].Type))
          => (Len(resultChan) < ChanCap(Strategies) /\ ~closed /\ ENABLED Launch)
    /\ \A i \in DOMAIN workers :
         /\ workers[i].pc = "select"
              => (Len(resultChan) < ChanCap(Strategies) /\ ~closed /\ ENABLED WorkerSelect(i))
         /\ workers[i].pc = "recover"
              => (Len(resultChan) < ChanCap(Strategies) /\ ~closed /\ ENABLED WorkerRecover(i))
         /\ workers[i].pc = "exit" => ENABLED WorkerDone(i)

C4_Witness ==
    /\ pc = "launch"
    /\ ctx = "done"
    /\ sends = Len(Strategies) - 1
    /\ Len(resultChan) = Len(Strategies) - 1
    /\ \E i \in DOMAIN workers : workers[i].pc \in {"select", "recover"}

\* C5: Engine.Execute runs at most one protocol, the first in configured order
\* whose ShouldExecute is true: the returned ProtocolName is its name, and every
\* worker and every result belongs to a strategy entry of that protocol.
C5_FirstMatchOnly ==
    /\ protocol # 0
         => /\ protocol \in Matching
            /\ \A j \in 1..(protocol - 1) : j \notin Matching
            /\ DOMAIN workers \subseteq DOMAIN Protocols[protocol].Strategies
            /\ \A k \in DOMAIN Delivered :
                 /\ Delivered[k].Entry \in DOMAIN Protocols[protocol].Strategies
                 /\ Delivered[k].StrategyType =
                        Protocols[protocol].Strategies[Delivered[k].Entry].Type
    /\ (pc = "returned" /\ ret.Executed)
         => /\ protocol # 0
            /\ ret.ProtocolName = Protocols[protocol].Name
    /\ (pc = "returned" /\ Matching # {} /\ cfg.Remediation.Enabled)
         => /\ ret.Executed
            /\ \A j \in Matching : protocol <= j

C5_Witness ==
    /\ pc = "returned"
    /\ protocol = 1
    /\ 2 \in Matching
    /\ Len(ret.Results) >= 1
    /\ \E k \in DOMAIN ret.Results :
         \A e \in DOMAIN Protocols[2].Strategies :
            Protocols[2].Strategies[e].Type # ret.Results[k].StrategyType

\* C6: Engine.Execute returns Executed = FALSE exactly when remediation is
\* disabled or no configured protocol matches, and then with no results and no
\* strategy executed; when disabled, ShouldExecute is called on no protocol.
C6_NotExecutedIff ==
    pc = "returned"
        => /\ ~ret.Executed <=> (~cfg.Remediation.Enabled \/ Matching = {})
           /\ ~ret.Executed
                => (ret.Results = <<>> /\ workers = <<>> /\ sends = 0 /\ wg = 0 /\ protocol = 0)
           /\ ~cfg.Remediation.Enabled => evaluated = 0

C6_Witness ==
    /\ pc = "returned"
    /\ ~cfg.Remediation.Enabled
    /\ Matching # {}
    /\ ~ret.Executed

C18_ReturnOrder ==
    pc = "returned"
        => \A i, j \in DOMAIN ret.Results :
             (/\ ret.Results[i].Entry = firstReturned
              /\ ret.Results[j].Entry # firstReturned
              /\ workers[ret.Results[j].Entry].out \in {"ok", "fail"}) => i < j

\* C18, amended: results are ordered by the time they were sent on the result
\* channel: every send puts its result after all results sent before it, and no
\* later step, the collector's receives and the return included, moves or drops
\* a result once sent; so A's result comes before B's exactly when A's goroutine
\* sent first, whichever Execute call returned first.
C18_SendOrder ==
    [][/\ Len(Delivered') >= Len(Delivered)
       /\ SubSeq(Delivered', 1, Len(Delivered)) = Delivered
       /\ \A i \in DOMAIN sent :
            (sent[i] = <<>> /\ sent'[i] # <<>>) => Delivered' = Append(Delivered, sent'[i][1])]_vars

C18_Witness ==
    /\ pc = "returned"
    /\ firstReturned = 1
    /\ Len(ret.Results) = 2
    /\ ret.Results[1].Entry = 2
    /\ ret.Results[2].Entry = 1
    /\ \A i \in DOMAIN workers : workers[i].out \in {"ok", "fail"}

----------------------------------------------------------------------------
(* Properties of the policy matcher *)

\* C8: a protocol with onBlock = false and onFindings = false never matches,
\* whatever the decision, the scan result, severityThreshold and findingTypes.
C8_NoTriggerNeverMatches ==
    (mpc = "done" /\ ~trig.Triggers.OnBlock /\ ~trig.Triggers.OnFindings) => matched = FALSE

C8_Witness ==
    /\ mpc = "done"
    /\ ~trig.Triggers.OnBlock
    /\ ~trig.Triggers.OnFindings
    /\ input.Decision.Block
    /\ input.ScanResults.HasFindings
    /\ trig.Triggers.SeverityThreshold = sHigh
    /\ trig.Triggers.FindingTypes = <<pAwsStar>>
    /\ matchesSeverityThreshold(input.ScanResults.Findings, sHigh)
    /\ matchesFindingTypes(input.ScanResults.Findings, <<pAwsStar>>)
    /\ ShouldExecute([trig EXCEPT !.Triggers.OnBlock = TRUE], input)

\* C23: ShouldExecute is the conjunction of its active triggers: it returns
\* TRUE if and only if onBlock or onFindings is set, onBlock implies
\* decision.Block, onFindings implies HasFindings, a set severityThreshold with
\* HasFindings implies some finding at or above it, and a non-empty findingTypes
\* with HasFindings implies some finding whose type matches some pattern; the
\* last two are skipped when HasFindings is false.
C23_ConjunctionOfTriggers ==
    mpc = "done"
        => LET t == trig.Triggers
               sr == input.ScanResults
           IN  matched
                 <=> /\ t.OnBlock \/ t.OnFindings
                     /\ t.OnBlock => input.Decision.Block
                     /\ t.OnFindings => sr.HasFindings
                     /\ (t.SeverityThreshold # <<>> /\ sr.HasFindings)
                          => \E i \in DOMAIN sr.Findings :
                                getSeverityLevel(sr.Findings[i].Severity)
                                    >= getSeverityLevel(t.SeverityThreshold)
                     /\ (t.FindingTypes # <<>> /\ sr.HasFindings)
                          => \E i \in DOMAIN sr.Findings : \E j \in DOMAIN t.FindingTypes :
                                matchesPattern(sr.Findings[i].Type, t.FindingTypes[j])

C23_Witness ==
    /\ mpc = "done"
    /\ matched
    /\ trig.Triggers.OnBlock
    /\ ~trig.Triggers.OnFindings
    /\ input.Decision.Block
    /\ input.ScanResults.HasFindings
    /\ trig.Triggers.SeverityThreshold = sHigh
    /\ trig.Triggers.FindingTypes = <<pAwsStar, tGhTok>>
    /\ Len(input.ScanResults.Findings) = 2
    /\ input.ScanResults.Findings[1].Severity = sLow
    /\ input.ScanResults.Findings[2].Severity = sHigh

----------------------------------------------------------------------------
(* Properties of the decision engine *)

\* the findings at or above threshold t, by the decision engine's levels
AtOrAbove(findings, t) ==
    {i \in DOMAIN findings :
        DecisionGetSeverityLevel(findings[i].Severity) >= DecisionGetSeverityLevel(t)}

Range(f) == {f[i] : i \in DOMAIN f}

\* C9: Evaluate returns Block = TRUE if and only if the scan has no error,
\* HasFindings is true, blockOnFindings is true and some finding has
\* level(severity) >= level(threshold); findings strictly below the threshold
\* never cause a block.
C9_BlockIff ==
    dpc = "done"
        => (decision.Block
              <=> /\ scanResults.Error = NoError
                  /\ scanResults.HasFindings
                  /\ cfg.Decision.BlockOnFindings
                  /\ AtOrAbove(scanResults.Findings, cfg.Decision.SeverityThreshold) # {})

C9_Witness ==
    /\ dpc = "done"
    /\ decision.Block
    /\ Len(scanResults.Findings) = 2
    /\ Cardinality(AtOrAbove(scanResults.Findings, cfg.Decision.SeverityThreshold)) = 1
    /\ \E i \in DOMAIN scanResults.Findings :
         DecisionGetSeverityLevel(scanResults.Findings[i].Severity)
            = DecisionGetSeverityLevel(cfg.Decision.SeverityThreshold)
    /\ decision.Metadata["finding_count"] = 1

\* C10: for recognized thresholds T1, T2 with level(T1) < level(T2), the findings
\* filterBySeverity keeps under T1 include those it keeps under T2, so a block
\* under T2 implies a block under T1.
C10_ThresholdMonotone ==
    dpc = "done"
        => \A t1, t2 \in RecognizedThresholds :
             DecisionGetSeverityLevel(t1) < DecisionGetSeverityLevel(t2)
                => /\ Range(filterBySeverity(scanResults.Findings, t2))
                        \subseteq Range(filterBySeverity(scanResults.Findings, t1))
                   /\ Len(filterBySeverity(scanResults.Findings, t2))
                        <= Len(filterBySeverity(scanResults.Findings, t1))
                   /\ Evaluate(scanResults, [cfg.Decision EXCEPT !.SeverityThreshold = t2]).Block
                        => Evaluate(scanResults, [cfg.Decision EXCEPT !.SeverityThreshold = t1]).Block
                   /\ (cfg.Decision.SeverityThreshold = t2 /\ decision.Block)
                        => Evaluate(scanResults, [cfg.Decision EXCEPT !.SeverityThreshold = t1]).Block

C10_Witness ==
    /\ dpc = "done"
    /\ decision.Block
    /\ cfg.Decision.SeverityThreshold = sHigh
    /\ Len(filterBySeverity(scanResults.Findings, sHigh)) = 1
    /\ Len(filterBySeverity(scanResults.Findings, sLow)) = 2

\* C11: fail-open on a scan error: whenever ScanResults.Error is set, Evaluate
\* returns Block = FALSE with an empty reason and the error's text under the
\* metadata key "scan_error" and nothing else, whatever HasFindings, the
\* findings' severities, the threshold and blockOnFindings are; the error
\* Evaluate itself returns is nil.
C11_FailOpen ==
    (dpc = "done" /\ scanResults.Error # NoError)
        => /\ decision.Block = FALSE
           /\ decision.Reason = <<>>
           /\ DOMAIN decision.Metadata = {"scan_error"}
           /\ decision.Metadata["scan_error"] = scanResults.Error[1]
           /\ EvaluateErr(scanResults, cfg.Decision) = NoError

C11_Witness ==
    /\ dpc = "done"
    /\ scanResults.Error # NoError
    /\ scanResults.HasFindings
    /\ cfg.Decision.BlockOnFindings
    /\ Len(scanResults.Findings) = 2
    /\ Cardinality(AtOrAbove(scanResults.Findings, cfg.Decision.SeverityThreshold)) = 2
    /\ ~decision.Block
    /\ "scan_error" \in DOMAIN decision.Metadata

\* C12: when blockOnFindings is false and at least one finding meets the
\* threshold, Evaluate returns Block = FALSE and records the filtered findings
\* in the decision's metadata.
C12_FindingsStillRecorded ==
    (/\ dpc = "done"
     /\ scanResults.Error = NoError
     /\ scanResults.HasFindings
     /\ ~cfg.Decision.BlockOnFindings
     /\ Len(filterBySeverity(scanResults.Findings, cfg.Decision.SeverityThreshold)) > 0)
        => /\ decision.Block = FALSE
           /\ "findings" \in DOMAIN decision.Metadata
           /\ decision.Metadata["findings"]
                = filterBySeverity(scanResults.Findings, cfg.Decision.SeverityThreshold)

----------------------------------------------------------------------------
(* Properties of result enrichment *)

\* C13: remediation never affects the block/allow outcome: for every decision
\* and every RemediationResults value, EnrichWithRemediation leaves Block and
\* Metadata as they were and changes at most Reason; after the enrichment step
\* of the pipeline Block is the value Evaluate produced.
C13_BlockUntouched ==
    /\ epc = "done"
         => /\ finalDecision.Block = decision.Block
            /\ finalDecision.Metadata = decision.Metadata
            /\ finalDecision.Block = Evaluate(scanResults, cfg.Decision).Block
    /\ epc # "off"
         => LET enriched == EnrichWithRemediation(decision, remediationResults)
            IN  /\ enriched.Block = decision.Block
                /\ enriched.Metadata = decision.Metadata
                /\ DOMAIN enriched = DOMAIN decision

C13_Witness ==
    /\ epc = "done"
    /\ decision.Block
    /\ finalDecision.Block
    /\ finalDecision.Reason # decision.Reason
    /\ remediationResults.Executed
    /\ Len(remediationResults.Results) = 2
    /\ \A i \in DOMAIN remediationResults.Results : remediationResults.Results[i].Success

\* C14: EnrichWithRemediation changes nothing of the decision whenever Executed
\* is false or Results is empty, and appends a summary to Reason exactly when
\* Executed is true and there is at least one result.
C14_NoOpUnlessExecuted ==
    epc = "done"
        => /\ (~remediationResults.Executed \/ Len(remediationResults.Results) = 0)
                 => finalDecision = decision
           /\ (remediationResults.Executed /\ Len(remediationResults.Results) >= 1)
                 => /\ finalDecision.Reason # decision.Reason
                    /\ Len(finalDecision.Reason) > Len(decision.Reason)
                    /\ SubSeq(finalDecision.Reason, 1, Len(decision.Reason)) = decision.Reason
                    /\ Contains(finalDecision.Reason, "Remediation actions taken (")
           /\ Contains(finalDecision.Reason, "Remediation actions taken (")
                 <=> (remediationResults.Executed /\ Len(remediationResults.Results) >= 1)

C14_Witness ==
    /\ epc = "done"
    /\ ~remediationResults.Executed
    /\ Len(remediationResults.Results) = 2
    /\ decision.Block
    /\ finalDecision = decision

\* C15: for a duration of ms whole milliseconds, ms >= 0, formatDuration gives
\* the integer ms followed by "ms" when ms < 1000 (a duration under one
\* millisecond gives "0ms"), and otherwise the seconds with exactly one decimal
\* digit followed by "s", a value within 0.05 s of ms/1000; 999 ms gives
\* "999ms", 1000 ms "1.0s", 2345 ms "2.3s" and 10847 ms "10.8s".
C15_FormatDuration ==
    fpc = "done"
        => LET ms == arg \div 1000
           IN  /\ ms < 1000 => out = <<ToString(ms), "ms">>
               /\ arg < 1000 => out = <<"0", "ms">>
               /\ ms >= 1000
                    => \E w \in 1..(MaxDurationMs \div 1000 + 1), t \in 0..9 :
                         /\ out = <<ToString(w), ".", ToString(t), "s">>
                         /\ w * 1000 + t * 100 - ms <= 50
                         /\ ms - (w * 1000 + t * 100) <= 50
               /\ ms = 999 => out = <<"999", "ms">>
               /\ ms = 1000 => out = <<"1", ".", "0", "s">>
               /\ ms = 2345 => out = <<"2", ".", "3", "s">>
               /\ ms = 10847 => out = <<"10", ".", "8", "s">>

C15_Witness ==
    /\ fpc = "done"
    /\ arg = 10847 * Millisecond + 999 * Microsecond
    /\ out = <<"10", ".", "8", "s">>

\* C16: the decision engine's getSeverityLevel and the remediation package's
\* getSeverityLevel give the same level for every severity string, in any
\* letter case, recognized or not: critical 4, high 3, medium and info 2, low 1,
\* anything else 0; so a finding meets a decision threshold T exactly when it
\* meets a protocol severityThreshold T.
C16_SameSeverityTable ==
    fpc = "done"
        => /\ out.decision = out.protocol
           /\ out.protocol = (CASE ToLower(arg) = sCritical -> 4
                                [] ToLower(arg) = sHigh -> 3
                                [] ToLower(arg) \in {sMedium, sInfo} -> 2
                                [] ToLower(arg) = sLow -> 1
                                [] OTHER -> 0)
           /\ \A t \in DecisionThresholds :
                (Len(filterBySeverity(<<NewFinding(arg, tAwsKey)>>, t)) = 1)
                    <=> matchesSeverityThreshold(<<NewFinding(arg, tAwsKey)>>, t)

C16_Witness ==
    /\ fpc = "done"
    /\ arg = <<"I","n","F","o">>
    /\ out = [decision |-> 2, protocol |-> 2]

\* the positions in s of the token that opens a result line
LineStarts(s) == {i \in DOMAIN s : s[i] = "\n  "}

\* the k-th smallest member of a set of positions
Nth(S, k) == CHOOSE i \in S : Cardinality({j \in S : j < i}) = k - 1

----------------------------------------------------------------------------
(* Properties of the registry *)

\* the table the k-th call found
TableBefore(k) == IF k = 1 THEN <<>> ELSE calls[k - 1].strategies

\* the last call before the k-th that unregistered strategyType, 0 if none
LastUnregistered(k, strategyType) ==
    LET us == {j \in 1..(k - 1) : /\ calls[j].op = "UnregisterStrategy"
                                   /\ calls[j].strategyType = strategyType
                                   /\ calls[j].err = NoError}
    IN  IF us = {} THEN 0 ELSE CHOOSE j \in us : \A i \in us : i <= j

\* the successful registrations of strategyType before the k-th call and since
\* it was last unregistered
LiveRegistrations(k, strategyType) ==
    {j \in (LastUnregistered(k, strategyType) + 1)..(k - 1) :
        /\ calls[j].op = "RegisterStrategy"
        /\ calls[j].strategyType = strategyType
        /\ calls[j].err = NoError}

Earliest(S) == CHOOSE j \in S : \A i \in S : j <= i

\* C17: RegisterStrategy returns an error and leaves the table unchanged when
\* the strategy is nil, its type is empty, its Validate fails or its type is
\* already registered; GetStrategy(t) returns the strategy of the earliest
\* successful registration of t since t was last unregistered, and a not-found
\* error when there is none; no registration overwrites a registered type.
C17_RegistryKeepsFirst ==
    /\ calls # <<>> => registry = calls[Len(calls)].strategies
    /\ \A k \in DOMAIN calls :
         LET c == calls[k]
             live == LiveRegistrations(k, c.strategyType)
         IN  /\ c.op = "RegisterStrategy"
                  => /\ (c.strategy.IsNil \/ c.strategy.Type = <<>> \/ ~c.strategy.Valid
                            \/ live # {})
                        => (c.err # NoError /\ c.strategies = TableBefore(k))
                     /\ c.err = NoError
                        => /\ c.strategyType \notin DOMAIN TableBefore(k)
                           /\ c.strategies[c.strategyType] = c.strategy
                           /\ \A t \in DOMAIN TableBefore(k) :
                                t \in DOMAIN c.strategies /\ c.strategies[t] = TableBefore(k)[t]
             /\ c.op = "GetStrategy"
                  => IF live = {}
                     THEN c.err # NoError
                     ELSE c.err = NoError /\ c.got = calls[Earliest(live)].strategy

C17_Witness ==
    /\ Len(calls) = 4
    /\ calls[1].op = "RegisterStrategy" /\ calls[1].err = NoError /\ calls[1].strategy.id = 1
    /\ calls[2].op = "RegisterStrategy" /\ calls[2].err # NoError /\ calls[2].strategy.id = 2
    /\ calls[3].op = "GetStrategy" /\ calls[3].got.id = 1
    /\ calls[4].op = "UnregisterStrategy" /\ calls[4].err = NoError
    /\ DOMAIN registry = {}

----------------------------------------------------------------------------
(* Properties of matchesPattern *)

\* glob matching: "*" stands for any run of characters, the empty one included,
\* every other character for itself
RECURSIVE GlobMatch(_, _)
GlobMatch(t, p) ==
    IF p = <<>> THEN t = <<>>
    ELSE IF Head(p) = "*"
    THEN \E k \in 0..Len(t) : GlobMatch(SubSeq(t, k + 1, Len(t)), Tail(p))
    ELSE t # <<>> /\ Head(t) = Head(p) /\ GlobMatch(Tail(t), Tail(p))

\* C19: for a pattern P* where P has no wildcard, matchesPattern(t, P*) is true
\* exactly when the finding type t starts with P ("aws_*" matches a type that
\* begins with "aws_" and not one that begins with "gh_"); the pattern "*"
\* alone matches every type.
C19_PrefixWildcard ==
    (/\ fpc = "done"
     /\ arg.pattern # <<>>
     /\ arg.pattern[Len(arg.pattern)] = "*"
     /\ \A i \in 1..(Len(arg.pattern) - 1) : arg.pattern[i] # "*")
        => LET P == SubSeq(arg.pattern, 1, Len(arg.pattern) - 1)
               t == arg.findingType
           IN  /\ out <=> (Len(t) >= Len(P) /\ SubSeq(t, 1, Len(P)) = P)
               /\ P = <<>> => out = TRUE
               /\ (arg.pattern = pAwsStar /\ t = tAwsKey) => out = TRUE
               /\ (arg.pattern = pAwsStar /\ t = tGhTok) => out = FALSE

C19_Witness ==
    /\ fpc = "done"
    /\ arg.pattern = <<"a", "b", "*">>
    /\ arg.findingType = <<"a", "b", "a">>
    /\ out = TRUE

\* C20: matchesPattern is glob matching: for every finding type t and pattern p
\* over the alphabet, matchesPattern(t, p) equals the glob match in which each
\* "*" matches any run of characters, the literal segments of p occur in t in
\* order without overlapping, and a pattern without "*" matches only itself.
C20_GlobMatch ==
    fpc = "done" => (out <=> GlobMatch(arg.findingType, arg.pattern))

----------------------------------------------------------------------------
(* Properties of unrecognized severities *)

\* a severity string the severity tables do not know
Unrecognized(severity) == ToLower(severity) \notin {sCritical, sHigh, sMedium, sInfo, sLow}

\* under threshold t no unrecognized finding of the scan is in the filtered
\* (blocking) set, and none on its own satisfies a protocol's severityThreshold t
UnrecognizedExcluded(t) ==
    /\ \A i \in DOMAIN scanResults.Findings :
         LET f == scanResults.Findings[i]
             alone == [ScanResults |-> NewScanResults(<<f>>), Decision |-> decision,
                       Framework |-> <<"claude">>]
         IN  Unrecognized(f.Severity)
                => /\ \A k \in DOMAIN filterBySeverity(scanResults.Findings, t) :
                        filterBySeverity(scanResults.Findings, t)[k] # f
                   /\ "findings" \in DOMAIN decision.Metadata
                        => \A k \in DOMAIN decision.Metadata["findings"] :
                              decision.Metadata["findings"][k] # f
                   /\ ~matchesSeverityThreshold(<<f>>, t)
                   /\ t # <<>>
                        => ~ShouldExecute(NewProtocolConfig(<<"p">>, NewTriggers(FALSE, TRUE, t, <<>>),
                                                            LogList(1)), alone)
    /\ (\A i \in DOMAIN scanResults.Findings : Unrecognized(scanResults.Findings[i].Severity))
         => ~decision.Block

\* C21 as stated: a finding with an unrecognized severity is below every
\* threshold: whatever threshold is configured, it is excluded from the decision
\* engine's filtered set and on its own never satisfies a protocol's
\* severityThreshold trigger.
C21_UnrecognizedBelowAll ==
    dpc = "done" => UnrecognizedExcluded(cfg.Decision.SeverityThreshold)

\* C21, amended: a finding with an unrecognized severity has level 0 and is
\* below every recognized threshold (critical, high, medium, info, low in any
\* letter case): under such a threshold it is excluded from the decision
\* engine's filtered set, a scan of unrecognized findings never blocks, and on
\* its own it never satisfies a protocol's severityThreshold trigger.
C21_UnrecognizedBelowRecognized ==
    (dpc = "done" /\ cfg.Decision.SeverityThreshold \in RecognizedThresholds)
        => UnrecognizedExcluded(cfg.Decision.SeverityThreshold)

C21_Witness ==
    /\ dpc = "done"
    /\ cfg.Decision.SeverityThreshold = sLow
    /\ cfg.Decision.BlockOnFindings
    /\ scanResults.HasFindings
    /\ scanResults.Error = NoError
    /\ Len(scanResults.Findings) = 2
    /\ scanResults.Findings[1].Severity = sBogus
    /\ scanResults.Findings[2].Severity = sHigh
    /\ decision.Block
    /\ decision.Metadata["finding_count"] = 1

----------------------------------------------------------------------------
(* Properties of LogStrategy *)

\* the result Execute gives for a cancelled context
Cancelled(r) ==
    /\ r.Success = FALSE
    /\ r.Error # NoError
    /\ r.Message \in {<<"Log operation cancelled">>, <<"Log operation cancelled before write">>}

\* C22: LogStrategy.Execute reports cancellation instead of succeeding: when the
\* context is already cancelled at the call, or is found cancelled at the check
\* before the write, Execute returns at that check a result with Success = FALSE,
\* a non-nil Error and a cancellation message, and appends nothing to the log
\* file; the file changes only in the write step that follows a passed check.
C22_CancelledNotLogged ==
    [][/\ (fpc \in {"start", "precheck"} /\ ctx = "done" /\ fpc' # fpc)
            => (fpc' = "done" /\ Cancelled(out') /\ logFile' = logFile)
       /\ logFile' # logFile => (fpc = "write" /\ out'.Success)
       /\ (fpc' = "done" /\ fpc # "done" /\ Cancelled(out')) => logFile' = <<>>]_vars

C22_Witness ==
    /\ fpc = "done"
    /\ ctx = "done"
    /\ out.Success = FALSE
    /\ out.Message = <<"Log operation cancelled before write">>
    /\ out.Error = <<ctxErr>>
    /\ logFile = <<>>

----------------------------------------------------------------------------
(* Properties of the registry under concurrent calls *)

\* the goroutines of the concurrent run that register
Registrations == {g \in DOMAIN calls : calls[g].op = "RegisterStrategy"}

\* the registrations that returned nil
Winners == {g \in Registrations : calls[g].at = "done" /\ calls[g].err = NoError}

AllReturned == \A g \in DOMAIN calls : calls[g].at = "done"

\* C25: for any interleaving of concurrent RegisterStrategy calls of one type
\* with concurrent GetStrategy and HasStrategy calls, exactly one registration
\* succeeds and the others fail as duplicates, every lookup returns not-found
\* or the winning strategy, and the table holds exactly one entry afterwards.
C25_OneWinner ==
    /\ Cardinality(Winners) <= 1
    /\ \A g \in Registrations :
         (calls[g].at = "done" /\ g \notin Winners)
            => calls[g].err = <<"strategy type is already registered">>
    /\ \A g \in DOMAIN calls :
         (calls[g].op = "GetStrategy" /\ calls[g].at = "done")
            => \/ calls[g].err = <<"strategy type not found">> /\ calls[g].got = NilStrategy
               \/ /\ calls[g].err = NoError
                  /\ \E w \in Winners : calls[g].got = calls[w].strategy
    /\ \A g \in DOMAIN calls :
         (calls[g].op = "HasStrategy" /\ calls[g].at = "done" /\ calls[g].has)
            => Winners # {}
    /\ (AllReturned /\ Registrations # {})
         => /\ Cardinality(Winners) = 1
            /\ DOMAIN registry = {tLog}
            /\ \A w \in Winners : registry[tLog] = calls[w].strategy
    /\ mu.writer # 0 => mu.readers = {}

C25_Witness ==
    /\ AllReturned
    /\ Cardinality(Registrations) >= 2
    /\ Cardinality(Winners) = 1
    /\ \E g \in DOMAIN calls :
         /\ calls[g].op = "GetStrategy"
         /\ calls[g].err = NoError
         /\ \E w \in Winners : w > g /\ calls[g].got = calls[w].strategy

----------------------------------------------------------------------------
(* Properties of the engine's channel, workers and return *)

\* no timeout is configured, so that Execute's context is the caller's, which
\* ProcessHook never cancels
NoDeadline == cfg.Remediation.TimeoutSeconds <= 0

\* C26: when no deadline applies and every resolved strategy's Execute returns
\* or panics, no worker abandons delivery: the context is never done, every
\* worker that left its select or its recover has put its result on the
\* channel, and Execute returns exactly N results for the N configured
\* strategy entries, one each.
C26_NoDeadlineAllDelivered ==
    NoDeadline
        => /\ ctx # "done"
           /\ \A i \in DOMAIN workers :
                workers[i].pc \in {"exit", "done"}
                    => (sent[i] # <<>> /\ Cardinality(EntriesFor(i)) = 1)
           /\ (pc = "returned" /\ protocol # 0
                 /\ \A i \in DOMAIN workers : workers[i].out # "hang")
                 => /\ Len(ret.Results) = Len(Strategies)
                    /\ \A i \in DOMAIN Strategies :
                         /\ Cardinality(EntriesFor(i)) = 1
                         /\ \A k \in EntriesFor(i) : ret.Results[k] = sent[i][1]

C26_Witness ==
    /\ NoDeadline
    /\ pc = "returned"
    /\ Len(Strategies) = MaxStrategies
    /\ Len(ret.Results) = MaxStrategies
    /\ \E i, j \in DOMAIN workers :
         /\ workers[i].out = "panic"
         /\ workers[j].out \in {"ok", "fail"}
         /\ workers[i].pc = "done"
         /\ workers[j].pc = "done"

\* C27: the result channel is closed exactly once, and only after every
\* launched worker has finished all its sends, the send of the panic recovery
\* included; there is never a send on a closed channel, and the collector ends,
\* and Execute returns, only after the close.
C27_ClosedOnceAfterAllSends ==
    /\ ~crashed
    /\ closer = "close" => ~closed
    /\ closed
         => /\ closer = "done"
            /\ wg = 0
            /\ si > Len(Strategies)
            /\ \A i \in DOMAIN workers : workers[i].pc \in {"idle", "done"}
            /\ \A i \in DOMAIN workers :
                 workers[i].out \in {"ok", "fail", "panic"} /\ ctx # "done" => sent[i] # <<>>
    /\ closer \in {"close", "done"}
         => \A i \in DOMAIN workers : workers[i].pc \in {"idle", "done"}
    /\ (pc = "returned" /\ protocol # 0 /\ Len(Strategies) >= 1) => closed

C27_Witness ==
    /\ pc = "returned"
    /\ closed
    /\ sends = MaxStrategies
    /\ \E i, j \in DOMAIN workers :
         /\ i # j
         /\ workers[i].out = "panic"
         /\ workers[j].out = "ok"
         /\ sent[i] # <<>>
         /\ sent[j] # <<>>

\* no strategy call is stuck: every Execute that was called returned or panicked
NoneHung == \A i \in DOMAIN workers : workers[i].pc # "hung"

\* C28: if every resolved strategy's Execute eventually returns or panics, then
\* under fair scheduling Engine.Execute eventually returns, whether or not the
\* deadline fires; and Execute never returns while a launched worker is still
\* running.
C28_ReturnsOnceWorkersEnd ==
    /\ []((pc = "returned") => \A i \in DOMAIN workers : workers[i].pc \in {"idle", "done"})
    /\ ([]NoneHung) => <>(pc = "returned")

C28_Witness ==
    /\ pc = "returned"
    /\ ctx = "done"
    /\ Len(workers) = MaxStrategies
    /\ \A i \in DOMAIN workers : workers[i].pc = "done"
    /\ Len(ret.Results) < MaxStrategies

\* the strategy entries the launch loop has passed whose type does not resolve
Unresolved == {i \in DOMAIN Strategies : i < si /\ ~HasStrategy(Strategies[i].Type)}

\* C29: an unresolvable strategy at position i gets its failed result
\* (Success false, non-nil Error, StrategyType the configured type) enqueued
\* synchronously and no worker is launched for it, so in Results it precedes
\* the result of every strategy at a later position: only results of entries
\* before position i can be ahead of it.
C29_UnresolvedEnqueuedInLoop ==
    /\ wg <= Cardinality({i \in DOMAIN Strategies : i < si} \ Unresolved)
    /\ \A i \in Unresolved :
         /\ workers[i].pc = "idle"
         /\ sent[i] # <<>>
         /\ Cardinality(EntriesFor(i)) = 1
         /\ \A ki \in EntriesFor(i) :
              /\ Delivered[ki] = sent[i][1]
              /\ Delivered[ki].Success = FALSE
              /\ Delivered[ki].Error # NoError
              /\ Delivered[ki].StrategyType = Strategies[i].Type
              /\ \A k \in DOMAIN Delivered :
                   /\ k < ki => Delivered[k].Entry < i
                   /\ Delivered[k].Entry > i => k > ki

C29_Witness ==
    /\ pc = "returned"
    /\ Len(Strategies) = MaxStrategies
    /\ Strategies[1].Type = tWebhook
    /\ Strategies[MaxStrategies].Type = tLog
    /\ workers[MaxStrategies].out = "ok"
    /\ Len(ret.Results) = MaxStrategies
    /\ ret.Results[1].Entry = 1
    /\ ret.Results[1].StrategyType = tWebhook
    /\ ret.Results[MaxStrategies].Success

----------------------------------------------------------------------------
(* Properties of the startup registration *)

\* every strategy entry of the configuration, in configuration order
StartupList == strategyEntries(Protocols, 1)

\* entry n is of the log type and NewLogStrategy accepts its configuration
ValidLog(n) ==
    /\ StartupList[n].strategyCfg.Type = tLog
    /\ NewLogStrategy(StartupList[n].strategyCfg).err = NoError

\* the first valid log entry in configuration order, if there is one
FirstValidLog == {n \in DOMAIN StartupList : ValidLog(n) /\ \A m \in 1..(n - 1) : ~ValidLog(m)}

\* the instance the worker of entry i of the matched protocol runs
Runs(i) == GetStrategy(registry, Strategies[i].Type).strategy

====
